----------------------- MODULE PhoneVerificationProofs -----------------------
(***************************************************************************)
(* Proofs about PhoneVerification for any number of users, phones, codes   *)
(* and concurrent requests, and any limit of attempts.                     *)
(***************************************************************************)
EXTENDS PhoneVerification, FiniteSetTheorems, WellFoundedInduction, TLAPS

Confirming == {"retiring", "missing", "activating"}

\* What request r may rely on while it runs: a confirmation has read a code of
\* its own user, with a guess left if it is to count one; the code of a flushed
\* start is a new one, and the codes it closes are codes of its user.
Holds(r) ==
  LET s == slot[r] IN
  /\ s.pc # "idle" => s.user \in User
  /\ s.pc \in Confirming => s.code \in Code /\ code[s.code].owner = s.user
  /\ s.pc = "missing" => s.attempts < MaxAttempts
  /\ s.pc \in {"starting", "sent"} =>
       s.phone \in Phone /\ \A c \in s.pending : code[c].owner = s.user
  /\ s.pc = "sent" => /\ s.code \in Code /\ s.code <= created
                      /\ code[s.code].owner = None /\ misses[s.code] = 0
                      /\ \A q \in Request \ {r} : slot[q].pc = "sent" => slot[q].code # s.code

\* A code that was not generated has no row; a row has its phone.
Rows ==
  \A c \in Code : /\ c > created => code[c].owner = None /\ misses[c] = 0
                  /\ code[c].owner = None \/ code[c].phone \in Phone

\* The inductive invariant behind every theorem.
Inv == TypeOK /\ Rows /\ \A r \in Request : Holds(r)

-----------------------------------------------------------------------------
(* Types.                                                                  *)

\* The newest pending code is one of the pending codes.
LEMMA NewestIsPending ==
  ASSUME BoundsAssumption, NEW S \in SUBSET Code, S # {}
  PROVE  Max(S) \in S
<1> DEFINE T == {MaxCodes - c : c \in S}
           R == OpToRel(<, Nat)
<1>1. MaxCodes \in Nat /\ \A c \in S : c \in Nat /\ MaxCodes - c \in Nat
  BY BoundsAssumption DEF Code
<1>2. T \subseteq Nat
  BY <1>1
<1>3. T # {}
  <2>1. PICK c \in S : TRUE
    OBVIOUS
  <2>2. MaxCodes - c \in T
    OBVIOUS
  <2>3. QED
    BY <2>2
<1>4. PICK m \in T : \A n \in T : ~(<<n, m>> \in R)
  <2> HIDE DEF T, R
  <2>1. IsWellFoundedOn(R, Nat)
    BY NatLessThanWellFounded DEF R
  <2>2. QED
    BY <1>2, <1>3, <2>1, WFMin
<1>5. \A n \in T : n >= m
  <2>0. T \subseteq Nat /\ m \in T
    BY <1>2
  <2> HIDE DEF T
  <2> SUFFICES ASSUME NEW n \in T, n < m
               PROVE  FALSE
    BY <2>0
  <2>1. <<n, m>> \in Nat \X Nat
    BY <2>0
  <2>2. <<n, m>>[1] < <<n, m>>[2]
    OBVIOUS
  <2>3. <<n, m>> \in R
    <3>1. R = {ss \in Nat \X Nat : ss[1] < ss[2]}
      BY DEF OpToRel
    <3> HIDE DEF R
    <3>2. QED
      BY <2>1, <2>2, <3>1, Zenon
  <2>4. QED
    BY <1>4, <2>3
<1>6. PICK c \in S : m = MaxCodes - c
  OBVIOUS
<1>7. \A d \in S : c >= d
  <2> SUFFICES ASSUME NEW d \in S
               PROVE  c >= d
    OBVIOUS
  <2>1. MaxCodes - d >= MaxCodes - c
    BY <1>5, <1>6
  <2>2. QED
    BY <1>1, <2>1
<1>8. QED
  BY <1>7 DEF Max

\* Slots, rows of users and rows of codes as they begin.
LEMMA RowTypes ==
  /\ Idle \in Slot /\ Idle.pc = "idle" /\ Idle.user = None
  /\ NewUser \in UserRow
  /\ NoCode \in CodeRow /\ NoCode.owner = None
BY BoundsAssumption DEF Idle, Slot, NewUser, UserRow, NoCode, CodeRow

\* Only the slot of r moves, to s; a code may be generated for it.
LEMMA SlotMoves ==
  ASSUME Inv, NEW r \in Request, NEW s \in Slot,
         slot' = [slot EXCEPT ![r] = s],
         UNCHANGED <<row, code, age, proved, misses, wasBlocked>>,
         overlapped' \subseteq User,
         created' \in 0..MaxCodes,
         s.pc = "sent" => created' = created + 1 /\ s.code = created + 1,
         s.pc # "sent" => created' = created,
         s.pc # "idle" => s.user \in User,
         s.pc \in Confirming => s.code \in Code /\ code[s.code].owner = s.user,
         s.pc = "missing" => s.attempts < MaxAttempts,
         s.pc \in {"starting", "sent"} =>
           s.phone \in Phone /\ \A c \in s.pending : code[c].owner = s.user
  PROVE  Inv'
<1> USE DEF Inv
<1>1. /\ slot'[r] = s
      /\ \A q \in Request \ {r} : slot'[q] = slot[q]
      /\ created \in Nat /\ created' \in Nat /\ created <= created'
  BY DEF TypeOK
<1>2. \A q \in Request \ {r} : slot'[q].pc = "sent" => slot'[q].code <= created
  BY <1>1 DEF Holds
<1>3. Holds(r)'
  <2>1. s.pc = "sent" => /\ s.code \in Code /\ s.code > created /\ s.code <= created'
    BY <1>1 DEF Code
  <2>2. s.pc = "sent" => /\ code[s.code].owner = None /\ misses[s.code] = 0
                         /\ \A q \in Request \ {r} : slot'[q].pc = "sent" => slot'[q].code # s.code
    BY <1>1, <1>2, <2>1 DEF Rows
  <2>3. QED
    BY <1>1, <2>1, <2>2 DEF Holds
<1>4. ASSUME NEW q \in Request \ {r}
      PROVE  Holds(q)'
  <2>1. Holds(q) /\ slot'[q] = slot[q]
    BY <1>1
  <2>2. slot[q].pc = "sent" /\ s.pc = "sent" => s.code # slot[q].code
    BY <1>1, <1>2
  <2>3. slot[q].pc = "sent" => slot[q].code \in Nat /\ slot[q].code <= created'
    BY <1>1, <2>1 DEF Holds, Code
  <2>4. QED
    BY <1>1, <2>1, <2>2, <2>3 DEF Holds
<1>5. Rows'
  BY <1>1 DEF Rows, Code
<1>6. TypeOK'
  BY <1>1 DEF TypeOK
<1>7. QED
  BY <1>3, <1>4, <1>5, <1>6

\* A confirmation writes the code it has read.
LEMMA CodeMoves ==
  ASSUME Inv, NEW r \in Request, slot[r].pc \in Confirming,
         slot' = [slot EXCEPT ![r] = Idle],
         NEW c, c = slot[r].code,
         NEW new \in CodeRow, new.owner = code[c].owner, new.phone = code[c].phone,
         code' = [code EXCEPT ![c] = new],
         misses' \in [Code -> Nat],
         \A d \in Code \ {c} : misses'[d] = misses[d],
         row' \in [User -> UserRow],
         proved' \subseteq User \X Phone,
         UNCHANGED <<age, created, overlapped, wasBlocked>>
  PROVE  Inv'
<1> USE DEF Inv
<1>1. /\ slot'[r] = Idle
      /\ \A q \in Request \ {r} : slot'[q] = slot[q]
      /\ c \in Code /\ code[c].owner \in User /\ code[c].owner # None
      /\ created \in Nat
  BY RowTypes, NoneAssumption DEF Holds, TypeOK, Confirming
<1>2. /\ \A d \in Code : code'[d].owner = code[d].owner /\ code'[d].phone = code[d].phone
      /\ \A d \in Code \ {c} : code'[d] = code[d]
  BY <1>1 DEF TypeOK
<1>3. Holds(r)'
  BY <1>1, RowTypes DEF Holds, Confirming
<1>4. ASSUME NEW q \in Request \ {r}
      PROVE  Holds(q)'
  <2>1. Holds(q) /\ slot'[q] = slot[q] /\ slot[q].pending \subseteq Code
    BY <1>1 DEF TypeOK, Slot
  <2>2. slot[q].pc = "sent" => slot[q].code \in Code \ {c}
    BY <1>1, <2>1, RowTypes DEF Holds
  <2>3. \A d \in slot[q].pending : code'[d].owner = code[d].owner
    BY <1>2, <2>1
  <2>4. \A p \in Request \ {q} : slot'[p].pc = "sent" => slot[p].pc = "sent" /\ slot'[p].code = slot[p].code
    BY <1>1, RowTypes
  <2>5. QED
    BY <1>2, <2>1, <2>2, <2>3, <2>4 DEF Holds
<1>5. Rows'
  BY <1>1, <1>2 DEF Rows, Code
<1>6. TypeOK'
  BY <1>1, RowTypes DEF TypeOK
<1>7. QED
  BY <1>3, <1>4, <1>5, <1>6

\* A flushed start commits: its new code, the codes it closes, its user's row.
LEMMA StartCommits ==
  ASSUME Inv, NEW r \in Request, StartCommit(r)
  PROVE  Inv'
<1> USE DEF Inv
<1> DEFINE s == slot[r]
<1>1. /\ s.pc = "sent" /\ s.user \in User /\ s.phone \in Phone
      /\ s.code \in Code /\ s.code <= created /\ code[s.code].owner = None /\ misses[s.code] = 0
      /\ \A q \in Request \ {r} : slot[q].pc = "sent" => slot[q].code # s.code
      /\ \A c \in s.pending : code[c].owner = s.user
      /\ s \in Slot
  BY DEF StartCommit, Holds, TypeOK
<1>2. /\ slot'[r] = Idle /\ slot' = [slot EXCEPT ![r] = Idle]
      /\ \A q \in Request \ {r} : slot'[q] = slot[q]
      /\ UNCHANGED <<age, created, proved, misses, overlapped, wasBlocked>>
  BY DEF StartCommit, TypeOK
<1>3. row' \in [User -> UserRow]
  <2>1. Emitted(s, row[s.user]) \in UserRow
    BY <1>1 DEF Emitted, UserRow, TypeOK
  <2>2. QED
    BY <1>1, <2>1 DEF StartCommit, TypeOK
<1>4. code' \in [Code -> CodeRow] /\ code'[s.code].owner = s.user /\ code'[s.code].phone = s.phone
  <2>1. [owner |-> s.user, phone |-> s.phone, used |-> FALSE, attempts |-> 0] \in CodeRow
    BY <1>1, BoundsAssumption DEF CodeRow
  <2>2. \A c \in Code : [code[c] EXCEPT !.used = @ \/ c \in s.pending] \in CodeRow
    <3> SUFFICES ASSUME NEW c \in Code
                 PROVE  [code[c] EXCEPT !.used = @ \/ c \in s.pending] \in CodeRow
      OBVIOUS
    <3>1. code[c] \in CodeRow
      BY DEF TypeOK
    <3>2. (code[c].used \/ c \in s.pending) \in BOOLEAN
      OBVIOUS
    <3> DEFINE b == code[c].used \/ c \in s.pending
    <3>3. [code[c] EXCEPT !.used = b] \in CodeRow
      <4> HIDE DEF b
      <4>1. b \in BOOLEAN
        BY <3>2 DEF b
      <4>2. QED
        BY <3>1, <4>1 DEF CodeRow
    <3>4. QED
      BY <3>3
  <2>3. QED
    BY <1>1, <2>1, <2>2 DEF StartCommit
<1>5. ASSUME NEW c \in Code \ {s.code}
      PROVE  code'[c].owner = code[c].owner /\ code'[c].phone = code[c].phone
  <2>1. code'[c] = [code[c] EXCEPT !.used = @ \/ c \in s.pending] /\ code[c] \in CodeRow
    BY DEF StartCommit, TypeOK
  <2>2. code'[c].owner = code[c].owner /\ code'[c].phone = code[c].phone
    BY <2>1 DEF CodeRow
  <2>3. QED
    BY <2>2
<1>6. Holds(r)'
  BY <1>2, RowTypes DEF Holds, Confirming
<1>7. ASSUME NEW q \in Request \ {r}
      PROVE  Holds(q)'
  <2>1. Holds(q) /\ slot'[q] = slot[q] /\ slot[q].pending \subseteq Code
    BY <1>2 DEF TypeOK, Slot
  <2>2. ASSUME NEW c \in Code, code[c].owner \in User
        PROVE  code'[c].owner = code[c].owner
    BY <1>1, <1>5, <2>2, RowTypes, NoneAssumption
  <2>3. \A p \in Request \ {q} : slot'[p].pc = "sent" => slot[p].pc = "sent" /\ slot'[p].code = slot[p].code
    BY <1>2, RowTypes
  <2>4. slot[q].pc = "sent" => slot[q].code \in Code \ {s.code}
    BY <1>1, <2>1 DEF Holds
  <2>5. slot[q].pc # "idle" => slot[q].user \in User
    BY <2>1 DEF Holds
  <2>6. slot[q].pc \in Confirming => slot[q].code \in Code /\ code'[slot[q].code].owner = slot[q].user
    BY <2>1, <2>2, <2>5 DEF Holds, Confirming
  <2>7. slot[q].pc \in {"starting", "sent"} => \A c \in slot[q].pending : code'[c].owner = slot[q].user
    BY <2>1, <2>2, <2>5 DEF Holds
  <2>8. slot[q].pc = "sent" => code'[slot[q].code].owner = None
    BY <1>5, <2>1, <2>4 DEF Holds
  <2>9. QED
    BY <1>2, <2>1, <2>3, <2>5, <2>6, <2>7, <2>8 DEF Holds
<1>8. Rows'
  BY <1>1, <1>2, <1>4, <1>5 DEF Rows, Code, TypeOK
<1>9. TypeOK'
  BY <1>2, <1>3, <1>4, RowTypes DEF TypeOK
<1>10. QED
  BY <1>6, <1>7, <1>8, <1>9

\* A check of a start, for a phone that was typed or is on the account.
LEMMA StartChecks ==
  ASSUME Inv, NEW r \in Request, NEW p \in Phone, StartCheck(r, p)
  PROVE  Inv'
<1> USE DEF Inv
<1> DEFINE s == [slot[r] EXCEPT !.pc = "starting", !.phone = p, !.pending = Pending(slot[r].user)]
<1>1. slot[r] \in Slot /\ slot[r].pc = "in" /\ slot[r].user \in User
  BY DEF StartCheck, TypeOK, Holds
<1>2. Pending(slot[r].user) \in SUBSET Code /\ \A c \in Pending(slot[r].user) : code[c].owner = slot[r].user
  BY DEF Pending, Codes
<1>3. /\ s \in Slot /\ s.pc = "starting" /\ s.phone = p /\ s.user = slot[r].user
      /\ s.pending = Pending(slot[r].user)
  BY <1>1, <1>2 DEF Slot
<1>4. slot' = [slot EXCEPT ![r] = s]
  BY DEF StartCheck
<1>5. /\ UNCHANGED <<row, code, age, created, proved, misses, overlapped, wasBlocked>>
      /\ overlapped \subseteq User /\ created \in 0..MaxCodes
  BY DEF StartCheck, TypeOK
<1> HIDE DEF s
<1>6. QED
  BY <1>1, <1>2, <1>3, <1>4, <1>5, SlotMoves DEF Confirming

\* Every step keeps the invariant.
LEMMA StepKeeps ==
  ASSUME Inv, [Next]_vars
  PROVE  Inv'
<1> USE DEF Inv
<1>1. /\ slot \in [Request -> Slot] /\ created \in 0..MaxCodes /\ overlapped \subseteq User
      /\ row \in [User -> UserRow] /\ code \in [Code -> CodeRow] /\ misses \in [Code -> Nat]
      /\ proved \subseteq User \X Phone
  BY DEF TypeOK
<1>2. ASSUME NEW r \in Request, NEW u \in User, Authenticate(r, u)
      PROVE  Inv'
  <2> DEFINE s == [Idle EXCEPT !.pc = "in", !.user = u, !.copy = row[u]]
  <2>1. s \in Slot /\ s.pc = "in" /\ s.user = u
    BY <1>1, RowTypes DEF Slot, Idle
  <2>2. slot' = [slot EXCEPT ![r] = s] /\ overlapped' \subseteq User
    BY <1>1, <1>2 DEF Authenticate
  <2>3. UNCHANGED <<row, code, age, created, proved, misses, wasBlocked>>
    BY <1>2 DEF Authenticate
  <2> HIDE DEF s
  <2>4. QED
    BY <1>1, <2>1, <2>2, <2>3, SlotMoves DEF Confirming
<1>3. ASSUME NEW r \in Request, Leave(r) \/ StartConflict(r)
      PROVE  Inv'
  <2>1. /\ slot' = [slot EXCEPT ![r] = Idle]
        /\ UNCHANGED <<row, code, age, created, proved, misses, overlapped, wasBlocked>>
    BY <1>3 DEF Leave, StartConflict
  <2>2. QED
    BY <1>1, <2>1, RowTypes, SlotMoves DEF Confirming
<1>4. ASSUME NEW r \in Request, ResendCheck(r)
      PROVE  Inv'
  <2>1. slot[r].copy.phone \in Phone
    BY <1>1, <1>4 DEF ResendCheck, Slot, UserRow
  <2>2. QED
    BY <1>4, <2>1, StartChecks DEF ResendCheck
<1>5. ASSUME NEW r \in Request, StartFlush(r)
      PROVE  Inv'
  <2> DEFINE s == [slot[r] EXCEPT !.pc = "sent", !.code = created + 1]
  <2>1. slot[r] \in Slot /\ slot[r].pc = "starting" /\ created + 1 \in 0..MaxCodes
    BY <1>1, <1>5, BoundsAssumption DEF StartFlush, CanFlush
  <2>2. /\ s \in Slot /\ s.pc = "sent" /\ s.code = created + 1
        /\ s.user = slot[r].user /\ s.phone = slot[r].phone /\ s.pending = slot[r].pending
    BY <2>1 DEF Slot
  <2>3. /\ slot' = [slot EXCEPT ![r] = s] /\ created' = created + 1
        /\ UNCHANGED <<row, code, age, proved, misses, overlapped, wasBlocked>>
    BY <1>5 DEF StartFlush
  <2>4. /\ slot[r].user \in User /\ slot[r].phone \in Phone
        /\ \A c \in slot[r].pending : code[c].owner = slot[r].user
    BY <2>1 DEF Holds
  <2> HIDE DEF s
  <2>5. QED
    BY <1>1, <2>1, <2>2, <2>3, <2>4, SlotMoves DEF Confirming
<1>6. ASSUME NEW r \in Request, NEW verdict \in Confirming, ConfirmRead(r, verdict)
      PROVE  Inv'
  <2> DEFINE u == slot[r].user
             c == Max(Pending(u))
             a == code[c].attempts
             s == [slot[r] EXCEPT !.pc = verdict, !.code = c, !.attempts = a]
  <2>1. slot[r] \in Slot /\ slot[r].pc = "in" /\ u \in User
    BY <1>1, <1>6 DEF ConfirmRead, Holds
  <2>2. Pending(u) \in SUBSET Code /\ Pending(u) # {}
    BY <1>6 DEF ConfirmRead, Pending, Codes
  <2>3. c \in Pending(u)
    BY <2>2, NewestIsPending, BoundsAssumption
  <2>4. c \in Code /\ code[c].owner = u /\ code[c].attempts \in 0..MaxAttempts
    BY <1>1, <2>3 DEF Pending, Codes, CodeRow
  <2>5. verdict = "missing" => code[c].attempts < MaxAttempts
    <3>1. verdict = "missing" => ~(code[c].attempts >= MaxAttempts)
      BY <1>6 DEF ConfirmRead
    <3>2. QED
      BY <2>4, <3>1, BoundsAssumption
  <2>6. slot' = [slot EXCEPT ![r] = s]
    BY <1>6 DEF ConfirmRead
  <2>7. UNCHANGED <<row, code, age, created, proved, misses, overlapped, wasBlocked>>
    BY <1>6 DEF ConfirmRead
  <2>8. /\ s \in Slot /\ s.pc = verdict /\ s.user = u /\ s.code = c
        /\ s.attempts = a
    <3>1. c \in 0..MaxCodes /\ a \in 0..MaxAttempts
      BY <2>4, BoundsAssumption DEF Code
    <3> HIDE DEF a, c
    <3>2. QED
      BY <2>1, <3>1 DEF Slot, Confirming
  <2> HIDE DEF s, c
  <2>9. QED
    BY <1>1, <2>1, <2>4, <2>5, <2>6, <2>7, <2>8, SlotMoves DEF Confirming
<1>7. ASSUME NEW r \in Request, RetireCommit(r) \/ MissCommit(r) \/ ActivateCommit(r)
      PROVE  Inv'
  <2> DEFINE c == slot[r].code
             n == slot[r].attempts + 1
  <2>1. slot[r].pc \in Confirming /\ slot' = [slot EXCEPT ![r] = Idle] /\ c \in Code
        /\ slot[r].user \in User /\ code[c].owner = slot[r].user
    BY <1>7 DEF RetireCommit, MissCommit, ActivateCommit, Confirming, Holds
  <2>2. code[c] \in CodeRow /\ code[c].phone \in Phone
    BY <1>1, <2>1, NoneAssumption DEF Rows
  <2>3. CASE RetireCommit(r)
    <3>1. code' = [code EXCEPT ![c] = [code[c] EXCEPT !.used = TRUE]]
      BY <2>3 DEF RetireCommit
    <3>2. /\ [code[c] EXCEPT !.used = TRUE] \in CodeRow
          /\ [code[c] EXCEPT !.used = TRUE].owner = code[c].owner
          /\ [code[c] EXCEPT !.used = TRUE].phone = code[c].phone
      BY <2>2 DEF CodeRow
    <3>3. UNCHANGED <<row, age, created, proved, misses, overlapped, wasBlocked>>
      BY <2>3 DEF RetireCommit
    <3>4. QED
      BY <1>1, <2>1, <3>1, <3>2, <3>3, CodeMoves
  <2>4. CASE MissCommit(r)
    <3> DEFINE b == code[c].used \/ n >= MaxAttempts
               new == [code[c] EXCEPT !.attempts = n, !.used = b]
    <3>1. n \in 0..MaxAttempts
      BY <1>1, <2>4, BoundsAssumption DEF MissCommit, Holds, Slot
    <3>2. code' = [code EXCEPT ![c] = new]
      BY <1>1, <2>4 DEF MissCommit
    <3>3. b \in BOOLEAN
      OBVIOUS
    <3>4. new \in CodeRow /\ new.owner = code[c].owner /\ new.phone = code[c].phone
      <4> HIDE DEF b, n
      <4>1. QED
        BY <2>2, <3>1, <3>3 DEF CodeRow
    <3>5. misses' \in [Code -> Nat] /\ \A d \in Code \ {c} : misses'[d] = misses[d]
      BY <1>1, <2>1, <2>4 DEF MissCommit
    <3>6. UNCHANGED <<row, age, created, proved, overlapped, wasBlocked>>
      BY <2>4 DEF MissCommit
    <3> HIDE DEF new
    <3>7. QED
      BY <1>1, <2>1, <3>2, <3>4, <3>5, <3>6, CodeMoves
  <2>5. CASE ActivateCommit(r)
    <3> DEFINE s == slot[r]
    <3>1. code' = [code EXCEPT ![c] = [code[c] EXCEPT !.used = TRUE]]
      BY <2>5 DEF ActivateCommit
    <3>2. /\ [code[c] EXCEPT !.used = TRUE] \in CodeRow
          /\ [code[c] EXCEPT !.used = TRUE].owner = code[c].owner
          /\ [code[c] EXCEPT !.used = TRUE].phone = code[c].phone
      BY <2>2 DEF CodeRow
    <3>3. UNCHANGED <<age, created, misses, overlapped, wasBlocked>>
      BY <2>5 DEF ActivateCommit
    <3>4. row' \in [User -> UserRow]
      <4> DEFINE v == row[s.user].verified \/ ~s.copy.verified
                 w == IF s.copy.status # "active" THEN "active" ELSE row[s.user].status
                 new == [row[s.user] EXCEPT !.verified = v, !.status = w]
      <4>1. row[s.user] \in UserRow /\ v \in BOOLEAN
        BY <1>1, <2>1
      <4>2. w \in {"pending", "active", "blocked"}
        BY <4>1 DEF UserRow
      <4>3. new \in UserRow
        <5> HIDE DEF v, w
        <5>1. QED
          BY <4>1, <4>2 DEF UserRow
      <4>4. row' = [row EXCEPT ![s.user] = new]
        BY <1>1, <2>1, <2>5 DEF ActivateCommit
      <4> HIDE DEF new
      <4>5. QED
        BY <1>1, <4>3, <4>4
    <3>5. proved' \subseteq User \X Phone
      BY <1>1, <2>1, <2>2, <2>5 DEF ActivateCommit
    <3>6. QED
      BY <1>1, <2>1, <3>1, <3>2, <3>3, <3>4, <3>5, CodeMoves
  <2>6. QED
    BY <1>7, <2>3, <2>4, <2>5
<1>8. ASSUME NEW c \in Code, Age(c)
      PROVE  Inv'
  BY <1>8 DEF Age, TypeOK, Rows, Holds
<1>9. ASSUME NEW u \in User, Block(u)
      PROVE  Inv'
  BY <1>9 DEF Block, TypeOK, Rows, Holds, UserRow
<1>10. CASE UNCHANGED vars
  BY <1>10 DEF vars, TypeOK, Rows, Holds
<1>11. QED
  BY <1>2, <1>3, <1>4, <1>5, <1>6, <1>7, <1>8, <1>9, <1>10, StartChecks, StartCommits
     DEF Next, Confirming

\* The initial states.
LEMMA InitInv == Init => Inv
BY BoundsAssumption, NoneAssumption, RowTypes
   DEF Init, Inv, TypeOK, Rows, Holds, Confirming, Idle, NoCode, Code

\* The invariant is inductive.
LEMMA Invariance == Spec => []Inv
<1>1. Inv /\ [Next]_vars => Inv'
  BY StepKeeps
<1>2. QED
  BY <1>1, InitInv, PTL DEF Spec

-----------------------------------------------------------------------------
(* What the steps do to slots and to the rows of users.                    *)

\* A slot goes on with its user and its copy, ends, or begins with the row of
\* its user.  Only a flush makes a start one that is sent.
LEMMA SlotSteps ==
  ASSUME Inv, [Next]_vars, NEW q \in Request
  PROVE  /\ \/ slot'[q].user = slot[q].user /\ slot'[q].copy = slot[q].copy
            \/ slot'[q] = Idle
            \/ \E u \in User : /\ slot'[q].user = u /\ slot'[q].copy = row[u]
                               /\ UNCHANGED <<row, wasBlocked>>
         /\ slot'[q].pc = "sent" => slot'[q] = slot[q] \/ StartFlush(q)
<1> USE DEF Inv
<1>1. slot \in [Request -> Slot]
  BY DEF TypeOK
<1>2. ASSUME NEW r \in Request, NEW u \in User, Authenticate(r, u)
      PROVE  /\ \A p \in Request \ {r} : slot'[p] = slot[p]
             /\ slot'[r].user = u /\ slot'[r].copy = row[u] /\ slot'[r].pc = "in"
             /\ UNCHANGED <<row, wasBlocked>>
  BY <1>1, <1>2 DEF Authenticate, Idle
<1>3. ASSUME NEW r \in Request,
             \/ \E p \in Phone : StartCheck(r, p)
             \/ ResendCheck(r)
             \/ \E verdict \in {"retiring", "missing", "activating"} : ConfirmRead(r, verdict)
      PROVE  /\ \A p \in Request \ {r} : slot'[p] = slot[p]
             /\ slot'[r].user = slot[r].user /\ slot'[r].copy = slot[r].copy
             /\ slot'[r].pc # "sent"
  <2>1. ASSUME NEW p, StartCheck(r, p)
        PROVE  \E pending : slot' = [slot EXCEPT ![r].pc = "starting", ![r].phone = p,
                                                 ![r].pending = pending]
    BY <2>1 DEF StartCheck
  <2>2. ASSUME NEW verdict \in {"retiring", "missing", "activating"}, ConfirmRead(r, verdict)
        PROVE  \E c, n : slot' = [slot EXCEPT ![r].pc = verdict, ![r].code = c,
                                              ![r].attempts = n]
    BY <2>2 DEF ConfirmRead
  <2>3. ASSUME NEW p, StartCheck(r, p)
        PROVE  /\ \A x \in Request \ {r} : slot'[x] = slot[x]
               /\ slot'[r].user = slot[r].user /\ slot'[r].copy = slot[r].copy
               /\ slot'[r].pc # "sent"
    <3>1. PICK pending : slot' = [slot EXCEPT ![r].pc = "starting", ![r].phone = p,
                                              ![r].pending = pending]
      BY <2>1, <2>3
    <3>2. QED
      BY <1>1, <3>1 DEF Slot
  <2>4. ASSUME NEW verdict \in {"retiring", "missing", "activating"}, ConfirmRead(r, verdict)
        PROVE  /\ \A x \in Request \ {r} : slot'[x] = slot[x]
               /\ slot'[r].user = slot[r].user /\ slot'[r].copy = slot[r].copy
               /\ slot'[r].pc # "sent"
    <3>1. PICK c, n : slot' = [slot EXCEPT ![r].pc = verdict, ![r].code = c,
                                           ![r].attempts = n]
      BY <2>2, <2>4
    <3>2. QED
      BY <1>1, <3>1 DEF Slot
  <2>5. QED
    BY <1>3, <2>3, <2>4 DEF ResendCheck
<1>4. ASSUME NEW r \in Request, StartFlush(r)
      PROVE  /\ \A p \in Request \ {r} : slot'[p] = slot[p]
             /\ slot'[r].user = slot[r].user /\ slot'[r].copy = slot[r].copy
  BY <1>1, <1>4 DEF StartFlush, Slot
<1>5. ASSUME NEW r \in Request,
             \/ Leave(r) \/ StartConflict(r) \/ StartCommit(r)
             \/ RetireCommit(r) \/ MissCommit(r) \/ ActivateCommit(r)
      PROVE  /\ \A p \in Request \ {r} : slot'[p] = slot[p]
             /\ slot'[r] = Idle
  BY <1>1, <1>5 DEF Leave, StartConflict, StartCommit, RetireCommit, MissCommit, ActivateCommit
<1>6. ASSUME \/ \E c \in Code : Age(c)
             \/ \E u \in User : Block(u)
             \/ UNCHANGED vars
      PROVE  slot' = slot
  BY <1>6 DEF Age, Block, vars
<1>7. QED
  BY <1>2, <1>3, <1>4, <1>5, <1>6, RowTypes DEF Next

\* Rows of users are written by three kinds of step.
LEMMA RowSteps ==
  ASSUME [Next]_vars
  PROVE  /\ \/ row' = row
            \/ \E r \in Request : StartCommit(r) \/ ActivateCommit(r)
            \/ \E u \in User : Block(u)
         /\ wasBlocked \subseteq wasBlocked'
         /\ overlapped \subseteq overlapped'
BY DEF Next, vars, Authenticate, Leave, StartCheck, ResendCheck, StartFlush, StartConflict,
       StartCommit, ConfirmRead, RetireCommit, MissCommit, ActivateCommit, Age, Block

\* The columns a start emits.
LEMMA EmitsColumns ==
  ASSUME NEW s
  PROVE  /\ "phone" \in Emits(s) <=> s.phone # s.copy.phone
         /\ "verified" \in Emits(s) <=> s.copy.verified
         /\ "status" \in Emits(s) <=> s.copy.status # "pending"
BY DEF Emits

-----------------------------------------------------------------------------
(* The status and the phone of an account.                                 *)

Agrees(x) == (x.verified <=> x.status = "active") /\ x.status # "blocked"

\* The row of a user never blocked agrees with itself, and so do the copies
\* that requests hold.
Agreeing ==
  /\ \A u \in User \ wasBlocked : Agrees(row[u])
  /\ \A r \in Request : slot[r].user \in User \ wasBlocked => Agrees(slot[r].copy)

\* A start emits both columns of a verified user and none of them for a pending
\* one; an activation writes both or finds them written.
LEMMA AgreeingKept ==
  ASSUME Inv, Agreeing, [Next]_vars
  PROVE  Agreeing'
<1>1. /\ row \in [User -> UserRow] /\ slot \in [Request -> Slot]
      /\ wasBlocked \subseteq wasBlocked'
  BY RowSteps DEF Inv, TypeOK
<1>2. ASSUME NEW r \in Request, slot'[r].user \in User \ wasBlocked'
      PROVE  Agrees(slot'[r].copy)
  BY <1>1, <1>2, SlotSteps, RowTypes, NoneAssumption DEF Agreeing
<1>3. ASSUME NEW u \in User \ wasBlocked'
      PROVE  Agrees(row'[u])
  <2>1. Agrees(row[u])
    BY <1>1 DEF Agreeing
  <2>2. ASSUME NEW r \in Request, StartCommit(r)
        PROVE  Agrees(row'[u])
    <3> DEFINE s == slot[r]
    <3>1. s.user \in User /\ row' = [row EXCEPT ![s.user] = Emitted(s, row[s.user])]
      BY <2>2 DEF StartCommit, Inv, Holds
    <3>2. CASE u = s.user
      <4>1. Agrees(s.copy) /\ s.copy \in UserRow
        BY <1>1, <3>2 DEF Agreeing, Slot
      <4>2. row'[u] = Emitted(s, row[u])
        BY <1>1, <3>1, <3>2
      <4>3. CASE s.copy.verified
        <5>1. s.copy.status # "pending"
          BY <4>1, <4>3 DEF Agrees
        <5>2. Emitted(s, row[u]).verified = FALSE /\ Emitted(s, row[u]).status = "pending"
          BY <4>3, <5>1, EmitsColumns DEF Emitted
        <5>3. QED
          BY <4>2, <5>2 DEF Agrees
      <4>4. CASE ~s.copy.verified
        <5>1. s.copy.status = "pending"
          BY <4>1, <4>4 DEF Agrees, UserRow
        <5>2. Emitted(s, row[u]).verified = row[u].verified /\ Emitted(s, row[u]).status = row[u].status
          BY <4>4, <5>1, EmitsColumns DEF Emitted
        <5>3. QED
          BY <2>1, <4>2, <5>2 DEF Agrees
      <4>5. QED
        BY <4>3, <4>4
    <3>3. CASE u # s.user
      BY <1>1, <2>1, <3>1, <3>3
    <3>4. QED
      BY <3>2, <3>3
  <2>3. ASSUME NEW r \in Request, ActivateCommit(r)
        PROVE  Agrees(row'[u])
    <3> DEFINE s == slot[r]
    <3>1. s.user \in User
      BY <2>3 DEF ActivateCommit, Inv, Holds
    <3>2. CASE u = s.user
      <4>1. Agrees(s.copy) /\ s.copy \in UserRow /\ row[u] \in UserRow
        BY <1>1, <3>2 DEF Agreeing, Slot
      <4>2. /\ row'[u].verified <=> (row[u].verified \/ ~s.copy.verified)
            /\ row'[u].status = IF s.copy.status # "active" THEN "active" ELSE row[u].status
        BY <1>1, <2>3, <3>1, <3>2 DEF ActivateCommit, UserRow
      <4>3. QED
        BY <2>1, <4>1, <4>2 DEF Agrees
    <3>3. CASE u # s.user
      BY <1>1, <2>1, <2>3, <3>3 DEF ActivateCommit
    <3>4. QED
      BY <3>2, <3>3
  <2>4. ASSUME NEW v \in User, Block(v)
        PROVE  Agrees(row'[u])
    BY <1>1, <2>1, <2>4 DEF Block
  <2>5. QED
    BY <2>1, <2>2, <2>3, <2>4, RowSteps
<1>4. QED
  BY <1>2, <1>3 DEF Agreeing

\* A flushed start that gives its account a phone holds that phone: no other
\* account has it, and no other flushed start is about to give it.
PhonesHeld ==
  \A q \in Request :
    slot[q].pc = "sent" /\ "phone" \in Emits(slot[q]) =>
      /\ \A v \in User \ {slot[q].user} : row[v].phone # slot[q].phone
      /\ \A p \in Request \ {q} :
           slot[p].pc = "sent" /\ "phone" \in Emits(slot[p]) => slot[p].phone # slot[q].phone

OnePhone == OneAccountPerPhone /\ PhonesHeld

\* A flush is refused where the phone is taken or about to be; only the commit of
\* a start changes phones.
LEMMA OnePhoneKept ==
  ASSUME Inv, OnePhone, [Next]_vars
  PROVE  OnePhone'
<1>1. row \in [User -> UserRow] /\ slot \in [Request -> Slot]
  BY DEF Inv, TypeOK
<1>2. ASSUME NEW r \in Request, StartCommit(r)
      PROVE  OnePhone'
  <2> DEFINE s == slot[r]
             u == s.user
  <2>1. s.pc = "sent" /\ u \in User /\ s.phone \in Phone
    BY <1>2 DEF StartCommit, Inv, Holds
  <2>2. /\ \A v \in User \ {u} : row'[v] = row[v]
        /\ row'[u].phone = IF "phone" \in Emits(s) THEN s.phone ELSE row[u].phone
    BY <1>1, <1>2, <2>1 DEF StartCommit, Emitted
  <2>3. slot'[r] = Idle /\ \A q \in Request \ {r} : slot'[q] = slot[q]
    BY <1>1, <1>2 DEF StartCommit
  <2>4. OneAccountPerPhone'
    BY <2>1, <2>2 DEF OnePhone, OneAccountPerPhone, PhonesHeld
  <2>5. ASSUME NEW q \in Request, slot'[q].pc = "sent", "phone" \in Emits(slot'[q])
        PROVE  /\ \A v \in User \ {slot'[q].user} : row'[v].phone # slot'[q].phone
               /\ \A p \in Request \ {q} :
                    slot'[p].pc = "sent" /\ "phone" \in Emits(slot'[p]) => slot'[p].phone # slot'[q].phone
    <3>1. q # r /\ slot'[q] = slot[q]
      BY <2>3, <2>5, RowTypes
    <3>2. \A v \in User \ {slot[q].user} : row'[v].phone # slot[q].phone
      BY <2>1, <2>2, <2>5, <3>1 DEF OnePhone, PhonesHeld
    <3>3. QED
      BY <2>3, <2>5, <3>1, <3>2, RowTypes DEF OnePhone, PhonesHeld
  <2>6. QED
    BY <2>4, <2>5 DEF OnePhone, PhonesHeld
<1>3. ASSUME NEW r \in Request, StartFlush(r)
      PROVE  OnePhone'
  <2> DEFINE s == slot[r]
  <2>1. /\ s.pc = "starting" /\ row' = row
        /\ \A q \in Request \ {r} : slot'[q] = slot[q] /\ ~LocksOut(q, s)
        /\ "phone" \in Emits(s) => \A v \in User \ {s.user} : row[v].phone # s.phone
    BY <1>1, <1>3 DEF StartFlush, CanFlush, Taken
  <2>2. /\ slot'[r].user = s.user /\ slot'[r].phone = s.phone /\ slot'[r].copy = s.copy
        /\ slot'[r].pc = "sent"
    BY <1>1, <1>3 DEF StartFlush, Slot
  <2>3. "phone" \in Emits(slot'[r]) <=> "phone" \in Emits(s)
    BY <2>2, EmitsColumns
  <2>4. ASSUME NEW q \in Request \ {r}, slot[q].pc = "sent", "phone" \in Emits(slot[q]),
               "phone" \in Emits(s)
        PROVE  slot[q].phone # s.phone
    BY <2>1, <2>4 DEF LocksOut
  <2>5. OneAccountPerPhone'
    BY <2>1 DEF OnePhone, OneAccountPerPhone
  <2>6. PhonesHeld'
    BY <2>1, <2>2, <2>3, <2>4 DEF OnePhone, PhonesHeld
  <2>7. QED
    BY <2>5, <2>6 DEF OnePhone
<1>4. ASSUME \A r \in Request : ~StartCommit(r) /\ ~StartFlush(r)
      PROVE  OnePhone'
  <2>1. \A v \in User : row'[v].phone = row[v].phone
    <3>1. ASSUME NEW r \in Request, ActivateCommit(r), NEW v \in User
          PROVE  row'[v].phone = row[v].phone
      BY <1>1, <3>1 DEF ActivateCommit, UserRow
    <3>2. ASSUME NEW u \in User, Block(u), NEW v \in User
          PROVE  row'[v].phone = row[v].phone
      BY <1>1, <3>2 DEF Block, UserRow
    <3>3. QED
      BY <1>4, <3>1, <3>2, RowSteps
  <2>2. \A q \in Request : slot'[q].pc = "sent" => slot'[q] = slot[q]
    BY <1>4, SlotSteps
  <2>3. OneAccountPerPhone'
    BY <2>1 DEF OnePhone, OneAccountPerPhone
  <2>4. PhonesHeld'
    BY <2>1, <2>2 DEF OnePhone, PhonesHeld
  <2>5. QED
    BY <2>3, <2>4 DEF OnePhone
<1>5. QED
  BY <1>2, <1>3, <1>4

-----------------------------------------------------------------------------
(* Users whose requests never overlapped.                                  *)

\* The request s of user u has seen what is committed: nobody else changes the
\* phone, the verification or the pending codes of u.  Its status may change,
\* as an operator blocks whom he likes.
Follows(u, s) ==
  /\ s.copy.phone = row[u].phone /\ (s.copy.verified <=> row[u].verified)
  /\ s.pc \in {"starting", "sent"} => Pending(u) \subseteq s.pending
  /\ s.pc \in Confirming => s.code \in Pending(u)
  /\ s.pc = "missing" => s.attempts = code[s.code].attempts

Sequential(u) ==
  /\ \A r, q \in Request : slot[r].user = u /\ slot[q].user = u => r = q
  /\ \A r \in Request : slot[r].user = u => Follows(u, slot[r])
  /\ \A c, d \in Pending(u) : c = d
  /\ \A c \in Pending(u) : code[c].phone = row[u].phone
  /\ Active(u) => <<u, row[u].phone>> \in proved

\* A step that leaves the account and the codes of u alone moves only a slot,
\* to one that has seen what is committed.
LEMMA SequentialMoves ==
  ASSUME Inv, NEW u \in User, Sequential(u), NEW r \in Request, NEW s,
         slot' = [slot EXCEPT ![r] = s],
         row'[u].phone = row[u].phone, row'[u].verified <=> row[u].verified,
         Active(u)' => Active(u),
         proved \subseteq proved',
         Pending(u)' = Pending(u),
         \A c \in Pending(u) : code'[c] = code[c],
         s.user = u => /\ Follows(u, s)
                       /\ \A q \in Request \ {r} : slot[q].user # u
  PROVE  Sequential(u)'
<1>1. slot'[r] = s /\ \A q \in Request \ {r} : slot'[q] = slot[q]
  BY DEF Inv, TypeOK
<1>2. \A p, q \in Request : slot'[p].user = u /\ slot'[q].user = u => p = q
  BY <1>1 DEF Sequential
<1>3. ASSUME NEW q \in Request, slot'[q].user = u
      PROVE  Follows(u, slot[q])'
  <2>1. Follows(u, slot'[q])
    BY <1>1, <1>3 DEF Sequential
  <2>2. QED
    BY <2>1 DEF Follows, Confirming
<1>4. \A c \in Pending(u)' : code'[c].phone = row'[u].phone
  BY DEF Sequential
<1>5. Active(u)' => <<u, row'[u].phone>> \in proved'
  BY DEF Sequential
<1>6. QED
  BY <1>2, <1>3, <1>4, <1>5 DEF Sequential

\* The request of u commits: no request of u is left.
LEMMA SequentialEnds ==
  ASSUME Inv, NEW u \in User, Sequential(u), NEW r \in Request, slot[r].user = u,
         slot' = [slot EXCEPT ![r] = Idle],
         \A c, d \in Pending(u)' : c = d,
         \A c \in Pending(u)' : code'[c].phone = row'[u].phone,
         Active(u)' => <<u, row'[u].phone>> \in proved'
  PROVE  Sequential(u)'
<1>1. \A q \in Request : slot'[q].user # u
  BY RowTypes, NoneAssumption DEF Inv, TypeOK, Sequential
<1>2. QED
  BY <1>1 DEF Sequential

\* Codes and rows of u that a step of somebody else leaves alone.
LEMMA OthersCodes ==
  ASSUME Inv, NEW u \in User,
         \A c \in Code : /\ code'[c].owner = u <=> code[c].owner = u
                         /\ code[c].owner = u => code'[c] = code[c]
  PROVE  Pending(u)' = Pending(u) /\ \A c \in Pending(u) : code'[c] = code[c]
BY DEF Pending, Codes

\* A confirmation by u closes the one code u has, or leaves it: what is pending
\* was pending.
LEMMA OwnCodes ==
  ASSUME Inv, NEW u \in User,
         \A c \in Code : /\ code'[c].owner = code[c].owner
                         /\ code'[c].phone = code[c].phone
                         /\ code[c].used => code'[c].used
  PROVE  Pending(u)' \subseteq Pending(u) /\ \A c \in Pending(u)' : code'[c].phone = code[c].phone
BY DEF Pending, Codes

\* What the commit of a start leaves of the codes.
LEMMA StartCodes ==
  ASSUME Inv, NEW r \in Request, StartCommit(r)
  PROVE  /\ code'[slot[r].code] = [owner |-> slot[r].user, phone |-> slot[r].phone,
                                   used |-> FALSE, attempts |-> 0]
         /\ \A c \in Code \ {slot[r].code} :
              /\ code'[c].owner = code[c].owner /\ code'[c].phone = code[c].phone
              /\ code'[c].attempts = code[c].attempts
              /\ code'[c].used <=> code[c].used \/ c \in slot[r].pending
              /\ c \notin slot[r].pending => code'[c] = code[c]
<1> DEFINE s == slot[r]
<1>1. code \in [Code -> CodeRow] /\ s.code \in Code
  BY DEF StartCommit, Inv, TypeOK, Holds
<1>2. code'[s.code] = [owner |-> s.user, phone |-> s.phone, used |-> FALSE, attempts |-> 0]
  BY <1>1 DEF StartCommit
<1>3. ASSUME NEW c \in Code \ {s.code}
      PROVE  /\ code'[c].owner = code[c].owner /\ code'[c].phone = code[c].phone
             /\ code'[c].attempts = code[c].attempts
             /\ code'[c].used <=> code[c].used \/ c \in s.pending
             /\ c \notin s.pending => code'[c] = code[c]
  <2> DEFINE b == code[c].used \/ c \in s.pending
  <2>1. code'[c] = [code[c] EXCEPT !.used = b]
    BY DEF StartCommit
  <2>2. code[c] \in CodeRow
    BY <1>1
  <2>3. code[c].used \in BOOLEAN /\ b \in BOOLEAN
    BY <2>2 DEF CodeRow
  <2>4. c \notin s.pending => b = code[c].used
    BY <2>3
  <2>5. /\ code'[c].owner = code[c].owner /\ code'[c].phone = code[c].phone
        /\ code'[c].attempts = code[c].attempts
        /\ code'[c].used = b
        /\ b = code[c].used => code'[c] = code[c]
    <3> HIDE DEF b
    <3>1. QED
      BY <2>1, <2>2 DEF CodeRow
  <2>6. QED
    BY <2>4, <2>5
<1>4. QED
  BY <1>2, <1>3

\* What the commit of a confirmation leaves of the codes.
LEMMA ConfirmCodes ==
  ASSUME Inv, NEW r \in Request, RetireCommit(r) \/ MissCommit(r) \/ ActivateCommit(r)
  PROVE  /\ \A c \in Code : /\ code'[c].owner = code[c].owner
                            /\ code'[c].phone = code[c].phone
                            /\ code[c].used => code'[c].used
         /\ \A c \in Code \ {slot[r].code} : code'[c] = code[c]
         /\ code'[slot[r].code].attempts =
              IF MissCommit(r) THEN slot[r].attempts + 1 ELSE code[slot[r].code].attempts
         /\ slot' = [slot EXCEPT ![r] = Idle]
         /\ slot[r].pc \in Confirming
<1> DEFINE c == slot[r].code
           n == slot[r].attempts + 1
<1>1. code \in [Code -> CodeRow] /\ c \in Code
  BY DEF RetireCommit, MissCommit, ActivateCommit, Inv, TypeOK, Holds, Confirming
<1>2. \A d \in Code \ {c} : code'[d] = code[d]
  BY <1>1 DEF RetireCommit, MissCommit, ActivateCommit
<1>3. CASE RetireCommit(r) \/ ActivateCommit(r)
  <2>1. code'[c] = [code[c] EXCEPT !.used = TRUE] /\ ~MissCommit(r)
    BY <1>1, <1>3 DEF RetireCommit, MissCommit, ActivateCommit
  <2>2. /\ code'[c].owner = code[c].owner /\ code'[c].phone = code[c].phone
        /\ code'[c].attempts = code[c].attempts /\ code'[c].used
    BY <1>1, <2>1 DEF CodeRow
  <2>3. QED
    BY <1>2, <1>3, <2>1, <2>2 DEF RetireCommit, ActivateCommit, Confirming
<1>4. CASE MissCommit(r)
  <2> DEFINE b == code[c].used \/ n >= MaxAttempts
  <2>1. code'[c] = [code[c] EXCEPT !.attempts = n, !.used = b]
    BY <1>1, <1>4 DEF MissCommit
  <2>2. /\ code'[c].owner = code[c].owner /\ code'[c].phone = code[c].phone
        /\ code'[c].attempts = n /\ code'[c].used = b
    <3> HIDE DEF b, n
    <3>1. QED
      BY <1>1, <2>1 DEF CodeRow
  <2>3. QED
    BY <1>2, <1>4, <2>2 DEF MissCommit, Confirming
<1>5. QED
  BY <1>3, <1>4

\* No step of anybody breaks what a user whose requests do not overlap sees.
LEMMA SequentialKept ==
  ASSUME Inv, NEW u \in User \ overlapped', Sequential(u), [Next]_vars
  PROVE  Sequential(u)'
<1>1. /\ slot \in [Request -> Slot] /\ row \in [User -> UserRow] /\ code \in [Code -> CodeRow]
      /\ u \in User /\ u # None
  BY NoneAssumption DEF Inv, TypeOK
<1>2. ASSUME NEW r \in Request, NEW v \in User, Authenticate(r, v)
      PROVE  Sequential(u)'
  <2> DEFINE s == [Idle EXCEPT !.pc = "in", !.user = v, !.copy = row[v]]
  <2>1. s.user = v /\ s.pc = "in" /\ s.copy = row[v]
    BY DEF Idle
  <2>2. /\ slot' = [slot EXCEPT ![r] = s]
        /\ UNCHANGED <<row, code, proved>>
    BY <1>2 DEF Authenticate
  <2>3. v = u => \A q \in Request : slot[q].user # u
    BY <1>2 DEF Authenticate
  <2>4. s.user = u => Follows(u, s)
    BY <2>1 DEF Follows, Confirming
  <2>5. Pending(u)' = Pending(u) /\ (Active(u)' => Active(u))
    BY <2>2 DEF Pending, Codes, Active
  <2> HIDE DEF s
  <2>6. QED
    BY <1>1, <2>1, <2>2, <2>3, <2>4, <2>5, SequentialMoves
<1>3. ASSUME NEW r \in Request, NEW s, s.user = slot[r].user, s.copy = slot[r].copy,
             slot' = [slot EXCEPT ![r] = s],
             UNCHANGED <<row, code, proved>>,
             s.pc \in {"starting", "sent"} => Pending(s.user) \subseteq s.pending,
             s.pc \in Confirming => s.code \in Pending(s.user),
             s.pc = "missing" => s.attempts = code[s.code].attempts
      PROVE  Sequential(u)'
  <2>1. s.user = u => /\ Follows(u, s)
                      /\ \A q \in Request \ {r} : slot[q].user # u
    BY <1>3 DEF Sequential, Follows
  <2>2. Pending(u)' = Pending(u) /\ (Active(u)' => Active(u))
    BY <1>3 DEF Pending, Codes, Active
  <2>3. QED
    BY <1>1, <1>3, <2>1, <2>2, SequentialMoves
<1>4. ASSUME NEW r \in Request, NEW p, StartCheck(r, p)
      PROVE  Sequential(u)'
  <2> DEFINE s == [slot[r] EXCEPT !.pc = "starting", !.phone = p, !.pending = Pending(slot[r].user)]
  <2>1. /\ s.user = slot[r].user /\ s.copy = slot[r].copy /\ s.pc = "starting"
        /\ s.pending = Pending(slot[r].user)
    BY <1>1 DEF Slot
  <2>2. slot' = [slot EXCEPT ![r] = s] /\ UNCHANGED <<row, code, proved>>
    BY <1>4 DEF StartCheck
  <2> HIDE DEF s
  <2>3. QED
    BY <1>3, <2>1, <2>2 DEF Confirming
<1>5. ASSUME NEW r \in Request, NEW verdict \in Confirming, ConfirmRead(r, verdict)
      PROVE  Sequential(u)'
  <2> DEFINE c == Max(Pending(slot[r].user))
             a == code[c].attempts
             s == [slot[r] EXCEPT !.pc = verdict, !.code = c, !.attempts = a]
  <2>1. c \in Pending(slot[r].user)
    BY <1>5, NewestIsPending, BoundsAssumption DEF ConfirmRead, Pending, Codes
  <2>2. slot' = [slot EXCEPT ![r] = s] /\ UNCHANGED <<row, code, proved>>
    BY <1>5 DEF ConfirmRead
  <2>3. /\ s.user = slot[r].user /\ s.copy = slot[r].copy /\ s.pc = verdict
        /\ s.code = c /\ s.attempts = a
    <3> HIDE DEF a, c
    <3>1. QED
      BY <1>1 DEF Slot
  <2>4. s.attempts = code[s.code].attempts
    BY <2>3
  <2> HIDE DEF s, c, a
  <2>5. QED
    BY <1>3, <2>1, <2>2, <2>3, <2>4 DEF Confirming
<1>6. ASSUME NEW r \in Request, StartFlush(r)
      PROVE  Sequential(u)'
  <2> DEFINE s == [slot[r] EXCEPT !.pc = "sent", !.code = created + 1]
  <2>1. /\ s.user = slot[r].user /\ s.copy = slot[r].copy /\ s.pc = "sent"
        /\ s.pending = slot[r].pending /\ slot[r].pc = "starting"
    BY <1>1, <1>6 DEF Slot, StartFlush, CanFlush
  <2>2. slot' = [slot EXCEPT ![r] = s] /\ UNCHANGED <<row, code, proved>>
    BY <1>6 DEF StartFlush
  <2> HIDE DEF s
  <2>3. s.user = u => /\ Follows(u, s)
                      /\ \A q \in Request \ {r} : slot[q].user # u
    BY <2>1 DEF Sequential, Follows, Confirming
  <2>4. Pending(u)' = Pending(u) /\ (Active(u)' => Active(u))
    BY <2>2 DEF Pending, Codes, Active
  <2>5. QED
    BY <1>1, <2>2, <2>3, <2>4, SequentialMoves
<1>7. ASSUME NEW r \in Request, Leave(r) \/ StartConflict(r)
      PROVE  Sequential(u)'
  <2>1. slot' = [slot EXCEPT ![r] = Idle] /\ UNCHANGED <<row, code, proved>>
    BY <1>7 DEF Leave, StartConflict
  <2>2. Pending(u)' = Pending(u) /\ (Active(u)' => Active(u))
    BY <2>1 DEF Pending, Codes, Active
  <2>3. QED
    BY <1>1, <2>1, <2>2, RowTypes, SequentialMoves
<1>8. ASSUME NEW r \in Request, StartCommit(r)
      PROVE  Sequential(u)'
  <2> DEFINE s == slot[r]
  <2>1. /\ s.pc = "sent" /\ s.user \in User /\ s.code \in Code /\ code[s.code].owner = None
        /\ \A c \in s.pending : code[c].owner = s.user
    BY <1>8 DEF StartCommit, Inv, Holds
  <2>2. /\ slot' = [slot EXCEPT ![r] = Idle] /\ proved' = proved
        /\ row' = [row EXCEPT ![s.user] = Emitted(s, row[s.user])]
    BY <1>8 DEF StartCommit
  <2>3. code'[s.code] = [owner |-> s.user, phone |-> s.phone, used |-> FALSE, attempts |-> 0]
    BY <1>8, StartCodes
  <2>4. \A c \in Code \ {s.code} : /\ code'[c].owner = code[c].owner
                                   /\ code'[c].used <=> code[c].used \/ c \in s.pending
                                   /\ c \notin s.pending => code'[c] = code[c]
    BY <1>8, StartCodes
  <2>5. CASE s.user = u
    <3>1. Follows(u, s)
      BY <2>5 DEF Sequential
    <3>2. Pending(u)' \subseteq {s.code}
      <4> SUFFICES ASSUME NEW c \in Code \ {s.code}, code'[c].owner = u, ~code'[c].used
                   PROVE  FALSE
        BY DEF Pending, Codes
      <4>1. code[c].owner = u /\ ~code[c].used /\ c \notin s.pending
        BY <2>4, Zenon
      <4>2. c \in Pending(u)
        BY <4>1 DEF Pending, Codes
      <4>3. QED
        BY <2>1, <3>1, <4>1, <4>2 DEF Follows
    <3>3. row'[u] = Emitted(s, row[u])
      BY <1>1, <2>2, <2>5
    <3>4. row'[u].phone = s.phone
      BY <3>1, <3>3, EmitsColumns DEF Emitted, Follows
    <3>5. ~row'[u].verified
      <4>1. CASE s.copy.verified
        BY <3>3, <4>1, EmitsColumns DEF Emitted
      <4>2. CASE ~s.copy.verified
        <5>1. Emitted(s, row[u]).verified = row[u].verified
          BY <4>2, EmitsColumns DEF Emitted
        <5>2. QED
          BY <3>1, <3>3, <4>2, <5>1 DEF Follows
      <4>3. QED
        BY <4>1, <4>2
    <3>6. code'[s.code].phone = s.phone
      BY <2>3
    <3>7. ~Active(u)'
      BY <3>5 DEF Active
    <3>8. QED
      BY <1>1, <2>2, <2>5, <3>2, <3>4, <3>6, <3>7, SequentialEnds
  <2>6. CASE s.user # u
    <3>1. row'[u] = row[u]
      BY <1>1, <2>2, <2>6
    <3>2. \A c \in Code : /\ code'[c].owner = u <=> code[c].owner = u
                          /\ code[c].owner = u => code'[c] = code[c]
      <4>1. code'[s.code].owner = s.user
        BY <2>3
      <4>2. \A c \in Code \ {s.code} : code[c].owner = u => c \notin s.pending
        BY <2>1, <2>6
      <4>3. \A c \in Code \ {s.code} : /\ code'[c].owner = code[c].owner
                                       /\ code[c].owner = u => code'[c] = code[c]
        BY <2>4, <4>2
      <4>4. QED
        BY <1>1, <2>1, <2>6, <4>1, <4>3
    <3>3. Pending(u)' = Pending(u) /\ \A c \in Pending(u) : code'[c] = code[c]
      BY <1>1, <3>2, OthersCodes
    <3>4. Active(u)' => Active(u)
      BY <3>1 DEF Active
    <3>5. QED
      BY <1>1, <2>2, <3>1, <3>3, <3>4, RowTypes, SequentialMoves
  <2>7. QED
    BY <2>5, <2>6
<1>9. ASSUME NEW r \in Request, RetireCommit(r) \/ MissCommit(r) \/ ActivateCommit(r)
      PROVE  Sequential(u)'
  <2> DEFINE s == slot[r]
  <2>1. /\ s.pc \in Confirming /\ s.user \in User /\ s.code \in Code /\ code[s.code].owner = s.user
        /\ slot' = [slot EXCEPT ![r] = Idle]
    BY <1>9, ConfirmCodes DEF Inv, Holds, Confirming
  <2>2. /\ \A v \in User : row'[v].phone = row[v].phone
        /\ \A v \in User \ {s.user} : row'[v] = row[v]
        /\ proved \subseteq proved'
    <3>1. CASE RetireCommit(r) \/ MissCommit(r)
      BY <3>1 DEF RetireCommit, MissCommit
    <3>2. CASE ActivateCommit(r)
      BY <1>1, <3>2 DEF ActivateCommit, UserRow
    <3>3. QED
      BY <1>9, <3>1, <3>2
  <2>3. CASE s.user = u
    <3>1. Pending(u)' \subseteq Pending(u) /\ \A c \in Pending(u)' : code'[c].phone = code[c].phone
      BY <1>1, <1>9, ConfirmCodes, OwnCodes
    <3>2. s.code \in Pending(u) /\ code[s.code].phone = row[u].phone
      BY <2>1, <2>3 DEF Sequential, Follows
    <3>3. Active(u)' => <<u, row'[u].phone>> \in proved'
      <4>1. CASE ActivateCommit(r)
        <5>1. <<u, code[s.code].phone>> \in proved'
          BY <2>3, <4>1 DEF ActivateCommit
        <5>2. QED
          BY <1>1, <2>2, <3>2, <5>1
      <4>2. CASE RetireCommit(r) \/ MissCommit(r)
        <5>1. row' = row /\ proved' = proved
          BY <4>2 DEF RetireCommit, MissCommit
        <5>2. QED
          BY <5>1 DEF Active, Sequential
      <4>3. QED
        BY <1>9, <4>1, <4>2
    <3>4. \A c, d \in Pending(u)' : c = d
      BY <3>1 DEF Sequential
    <3>5. \A c \in Pending(u)' : code'[c].phone = row'[u].phone
      BY <1>1, <2>2, <3>1 DEF Sequential
    <3>6. QED
      BY <1>1, <2>1, <2>3, <3>3, <3>4, <3>5, SequentialEnds
  <2>4. CASE s.user # u
    <3>1. row'[u] = row[u]
      BY <1>1, <2>2, <2>4
    <3>2. \A c \in Code : /\ code'[c].owner = u <=> code[c].owner = u
                          /\ code[c].owner = u => code'[c] = code[c]
      BY <1>9, <2>1, <2>4, ConfirmCodes
    <3>3. Pending(u)' = Pending(u) /\ \A c \in Pending(u) : code'[c] = code[c]
      BY <1>1, <3>2, OthersCodes
    <3>4. Active(u)' => Active(u)
      BY <3>1 DEF Active
    <3>5. QED
      BY <1>1, <2>1, <2>2, <3>1, <3>3, <3>4, RowTypes, SequentialMoves
  <2>5. QED
    BY <2>3, <2>4
<1>10. CASE (\E c \in Code : Age(c)) \/ UNCHANGED vars
  BY <1>10 DEF Age, vars, Sequential, Follows, Pending, Codes, Active
<1>11. ASSUME NEW v \in User, Block(v)
       PROVE  Sequential(u)'
  <2>1. /\ UNCHANGED <<code, slot, proved>>
        /\ row'[u].phone = row[u].phone /\ (row'[u].verified <=> row[u].verified)
        /\ row'[u].status \in {row[u].status, "blocked"}
    BY <1>1, <1>11 DEF Block, UserRow
  <2>2. Active(u)' => Active(u)
    BY <2>1 DEF Active
  <2>3. QED
    BY <2>1, <2>2 DEF Sequential, Follows, Pending, Codes
<1>12. QED
  BY <1>2, <1>4, <1>5, <1>6, <1>7, <1>8, <1>9, <1>10, <1>11 DEF Next, Confirming, ResendCheck

\* The count in a code's row is the number of guesses, unless requests of its
\* owner overlapped.
Counted ==
  \A c \in Code : code[c].owner \notin overlapped => misses[c] = code[c].attempts

\* The copy of the count that a lone confirmation holds is the count itself.
LEMMA CountedKept ==
  ASSUME Inv, Counted, \A u \in User \ overlapped : Sequential(u), [Next]_vars
  PROVE  Counted'
<1>1. /\ code \in [Code -> CodeRow] /\ misses \in [Code -> Nat]
      /\ overlapped \subseteq overlapped'
  BY RowSteps DEF Inv, TypeOK
<1>2. ASSUME NEW r \in Request, StartCommit(r)
      PROVE  Counted'
  <2>1. /\ misses' = misses /\ overlapped' = overlapped
        /\ slot[r].code \in Code /\ misses[slot[r].code] = 0
    BY <1>2 DEF StartCommit, Inv, Holds
  <2>2. code'[slot[r].code].attempts = 0
    <3>1. code'[slot[r].code] = [owner |-> slot[r].user, phone |-> slot[r].phone,
                                 used |-> FALSE, attempts |-> 0]
      BY <1>2, StartCodes
    <3>2. QED
      BY <3>1
  <2>3. \A c \in Code \ {slot[r].code} : /\ code'[c].owner = code[c].owner
                                         /\ code'[c].attempts = code[c].attempts
    BY <1>2, StartCodes
  <2>4. QED
    BY <2>1, <2>2, <2>3 DEF Counted
<1>3. ASSUME NEW r \in Request, RetireCommit(r) \/ MissCommit(r) \/ ActivateCommit(r)
      PROVE  Counted'
  <2> DEFINE c == slot[r].code
  <2>1. /\ slot[r].user \in User /\ c \in Code /\ code[c].owner = slot[r].user
    BY <1>3, ConfirmCodes DEF Inv, Holds, Confirming
  <2>2. \A d \in Code \ {c} : misses'[d] = misses[d] /\ code'[d] = code[d]
    BY <1>1, <1>3, ConfirmCodes DEF RetireCommit, MissCommit, ActivateCommit
  <2>3. ASSUME code'[c].owner \notin overlapped'
        PROVE  misses'[c] = code'[c].attempts
    <3>1. code[c].owner \notin overlapped
      BY <1>1, <1>3, <2>1, <2>3, ConfirmCodes
    <3>2. Follows(slot[r].user, slot[r]) /\ misses[c] = code[c].attempts
      BY <2>1, <3>1 DEF Counted, Sequential
    <3>3. CASE MissCommit(r)
      <4>1. slot[r].attempts = code[c].attempts /\ misses'[c] = misses[c] + 1
        BY <1>1, <2>1, <3>2, <3>3 DEF MissCommit, Follows
      <4>2. QED
        BY <1>3, <3>2, <3>3, <4>1, ConfirmCodes
    <3>4. CASE ~MissCommit(r)
      BY <1>3, <3>2, <3>4, ConfirmCodes DEF RetireCommit, ActivateCommit
    <3>5. QED
      BY <3>3, <3>4
  <2>4. QED
    BY <1>1, <2>2, <2>3 DEF Counted
<1>4. ASSUME \A r \in Request : ~(StartCommit(r) \/ RetireCommit(r) \/ MissCommit(r) \/ ActivateCommit(r))
      PROVE  Counted'
  <2>1. UNCHANGED <<code, misses>>
    BY <1>4 DEF Next, vars, Authenticate, Leave, StartCheck, ResendCheck, StartFlush,
                StartConflict, ConfirmRead, Age, Block
  <2>2. QED
    BY <1>1, <2>1 DEF Counted
<1>5. QED
  BY <1>2, <1>3, <1>4

\* What closes a code is written with the count that fills it.
LEMMA SpentKept ==
  ASSUME Inv, SpentCodesAreClosed, [Next]_vars
  PROVE  SpentCodesAreClosed'
<1>1. code \in [Code -> CodeRow]
  BY DEF Inv, TypeOK
<1>2. ASSUME NEW r \in Request, StartCommit(r)
      PROVE  SpentCodesAreClosed'
  <2>1. code'[slot[r].code].attempts = 0
    <3>1. code'[slot[r].code] = [owner |-> slot[r].user, phone |-> slot[r].phone,
                                 used |-> FALSE, attempts |-> 0]
      BY <1>2, StartCodes
    <3>2. QED
      BY <3>1
  <2>2. \A c \in Code \ {slot[r].code} :
           code'[c].attempts = code[c].attempts /\ (code[c].used => code'[c].used)
    BY <1>2, StartCodes
  <2>3. QED
    BY <2>1, <2>2, BoundsAssumption DEF SpentCodesAreClosed
<1>3. ASSUME NEW r \in Request, RetireCommit(r) \/ MissCommit(r) \/ ActivateCommit(r)
      PROVE  SpentCodesAreClosed'
  <2> DEFINE c == slot[r].code
             n == slot[r].attempts + 1
  <2>1. c \in Code /\ \A d \in Code \ {c} : code'[d] = code[d]
    BY <1>3, ConfirmCodes DEF Inv, Holds
  <2>2. code'[c].attempts >= MaxAttempts => code'[c].used
    <3>1. CASE RetireCommit(r) \/ ActivateCommit(r)
      <4>1. code'[c] = [code[c] EXCEPT !.used = TRUE]
        BY <1>1, <2>1, <3>1 DEF RetireCommit, ActivateCommit
      <4>2. code'[c].used = TRUE
        BY <1>1, <2>1, <4>1 DEF CodeRow
      <4>3. QED
        BY <4>2
    <3>2. CASE MissCommit(r)
      <4> DEFINE b == code[c].used \/ n >= MaxAttempts
      <4>1. code' = [code EXCEPT ![c].attempts = n, ![c].used = b]
        BY <3>2 DEF MissCommit
      <4>2. code'[c].attempts = n /\ code'[c].used = b
        <5> HIDE DEF b, n, c
        <5>1. QED
          BY <1>1, <2>1, <4>1 DEF CodeRow
      <4>3. QED
        BY <4>2
    <3>3. QED
      BY <1>3, <3>1, <3>2
  <2>3. QED
    BY <2>1, <2>2 DEF SpentCodesAreClosed
<1>4. ASSUME \A r \in Request : ~(StartCommit(r) \/ RetireCommit(r) \/ MissCommit(r) \/ ActivateCommit(r))
      PROVE  SpentCodesAreClosed'
  <2>1. UNCHANGED code
    BY <1>4 DEF Next, vars, Authenticate, Leave, StartCheck, ResendCheck, StartFlush,
                StartConflict, ConfirmRead, Age, Block
  <2>2. QED
    BY <2>1 DEF SpentCodesAreClosed
<1>5. QED
  BY <1>2, <1>3, <1>4

-----------------------------------------------------------------------------
(* The theorems.                                                           *)

\* Every variable keeps its type; in particular a confirmation never counts
\* past the limit and the newest pending code exists when it is read
\* (phone_verification_service.py:112-176).
THEOREM TypeCorrect == Spec => []TypeOK
<1>1. Inv => TypeOK
  BY DEF Inv
<1>2. QED
  BY <1>1, Invariance, PTL

\* Two accounts never show the same phone, whatever starts race for it: the
\* check of a start may be stale, but a flushed start holds the entry of the
\* unique index (phone_verification_service.py:50-56; models/user.py:31).
THEOREM OnePhoneCorrect == Spec => []OneAccountPerPhone
<1>1. Init => OnePhone
  BY DEF Init, OnePhone, OneAccountPerPhone, PhonesHeld, NewUser, Idle
<1>2. Inv /\ OnePhone /\ [Next]_vars => OnePhone'
  BY OnePhoneKept
<1>3. OnePhone => OneAccountPerPhone
  BY DEF OnePhone
<1>4. QED
  BY <1>1, <1>2, <1>3, Invariance, PTL DEF Spec

\* phone_verified and account_status of an account that was never blocked
\* agree, although every request writes only what differs from its own copy
\* (phone_verification_service.py:77-79, 167-169).
THEOREM StatusCorrect == Spec => []StatusAgreesWithVerified
<1>1. Init => Agreeing
  BY NoneAssumption DEF Init, Agreeing, Agrees, NewUser, Idle
<1>2. Inv /\ Agreeing /\ [Next]_vars => Agreeing'
  BY AgreeingKept
<1>3. Agreeing => StatusAgreesWithVerified
  BY DEF Agreeing, Agrees, StatusAgreesWithVerified
<1>4. QED
  BY <1>1, <1>2, <1>3, Invariance, PTL DEF Spec

\* A code whose count has reached the limit is closed, although the count may
\* be written back from a stale copy (phone_verification_service.py:143-159).
THEOREM SpentCorrect == Spec => []SpentCodesAreClosed
<1>1. Init => SpentCodesAreClosed
  BY BoundsAssumption DEF Init, SpentCodesAreClosed, NoCode
<1>2. Inv /\ SpentCodesAreClosed /\ [Next]_vars => SpentCodesAreClosed'
  BY SpentKept
<1>3. QED
  BY <1>1, <1>2, Invariance, PTL DEF Spec

\* For a user whose requests never overlapped: one code at a time can be
\* redeemed, access means that the phone on the account was proved, and no code
\* takes more wrong guesses than the limit
\* (phone_verification_service.py:74-81, 143-171).
THEOREM SequentialCorrect ==
  Spec => [](OnePendingCode /\ ActiveMeansPhoneProved /\ AttemptsLimitedWhenSequential)
<1> DEFINE Alone == \A u \in User \ overlapped : Sequential(u)
<1>1. Init => Alone /\ Counted
  BY NoneAssumption DEF Init, Sequential, Follows, Pending, Codes, Active, Counted,
                        NoCode, NewUser, Idle
<1>2. Inv /\ (Alone /\ Counted) /\ [Next]_vars => (Alone /\ Counted)'
  <2> SUFFICES ASSUME Inv, Alone, Counted, [Next]_vars
               PROVE  Alone' /\ Counted'
    OBVIOUS
  <2>1. overlapped \subseteq overlapped'
    BY RowSteps
  <2>2. ASSUME NEW u \in User \ overlapped'
        PROVE  Sequential(u)'
    BY <2>1, SequentialKept
  <2>3. Counted'
    BY CountedKept
  <2>4. QED
    BY <2>2, <2>3
<1>3. Inv /\ Alone => OnePendingCode /\ ActiveMeansPhoneProved
  <2> SUFFICES ASSUME Alone, NEW u \in User \ overlapped
               PROVE  /\ Cardinality(Pending(u)) <= 1
                      /\ Active(u) => <<u, row[u].phone>> \in proved
    BY DEF OnePendingCode, ActiveMeansPhoneProved
  <2>1. \A c, d \in Pending(u) : c = d
    BY DEF Sequential
  <2>2. Cardinality(Pending(u)) <= 1
    <3>1. CASE Pending(u) = {}
      BY <3>1, FS_EmptySet
    <3>2. ASSUME NEW c \in Pending(u)
          PROVE  Cardinality(Pending(u)) <= 1
      <4>1. Pending(u) = {c}
        BY <2>1
      <4>2. Cardinality({c}) = 1
        BY FS_Singleton
      <4>3. QED
        BY <4>1, <4>2
    <3>3. QED
      BY <3>1, <3>2
  <2>3. QED
    BY <2>2 DEF Sequential
<1>4. Inv /\ Counted => AttemptsLimitedWhenSequential
  BY BoundsAssumption DEF Inv, TypeOK, CodeRow, Counted, AttemptsLimitedWhenSequential
<1> HIDE DEF Alone
<1>5. QED
  BY <1>1, <1>2, <1>3, <1>4, Invariance, PTL DEF Spec
=============================================================================
