-------------------------- MODULE PhoneVerification --------------------------
(***************************************************************************)
(* Verification of a user's phone by a code sent by SMS                    *)
(* (src/app/services/auth/phone_verification_service.py).                  *)
(*                                                                         *)
(* A request is a slot.  It reads the user's row when it authenticates     *)
(* and keeps that copy (the session never expires a loaded row); it reads  *)
(* the codes when the service runs; and at the flush it emits only the     *)
(* columns whose new value differs from its copy.  start_verification      *)
(* flushes, sends the SMS and only then commits: it holds its row locks    *)
(* for as long as the provider takes, so its flush and its commit are two  *)
(* steps.  The writes of confirm_verification have nothing between them    *)
(* and are one step with the commit.                                       *)
(***************************************************************************)
EXTENDS Naturals, FiniteSets, FiniteSetsExt

CONSTANTS
  User, Phone, Request,
  None,
  MaxAttempts,   \* phone_verification_max_attempts
  MaxCodes       \* bound: how many codes are generated

ASSUME BoundsAssumption == MaxAttempts \in Nat \ {0} /\ MaxCodes \in Nat \ {0}
ASSUME NoneAssumption == None \notin User \cup Phone

\* Codes are numbered by created_at.
Code == 1..MaxCodes

VARIABLES
  row,       \* row[u]: phone_number, phone_verified and account_status
  code,      \* code[c]: the committed row of a code, or NoCode
  age,       \* age[c]: "new" within the resend interval, then "cool", "expired"
  created,   \* the number of codes generated
  slot,      \* slot[r]: the request r is running
  \* history
  proved,      \* <<u, p>>: u has given back a code that was sent to p
  misses,      \* misses[c]: wrong guesses answered for code c
  overlapped,  \* users two requests of whom were in flight at once
  wasBlocked   \* users who were ever blocked

vars == <<row, code, age, created, slot, proved, misses, overlapped, wasBlocked>>

NoCode == [owner |-> None, phone |-> None, used |-> FALSE, attempts |-> 0]
NewUser == [phone |-> None, verified |-> FALSE, status |-> "pending"]
Idle == [pc |-> "idle", user |-> None, copy |-> NewUser, phone |-> None,
         pending |-> {}, code |-> 0, attempts |-> 0]

Codes(u)   == {c \in Code : code[c].owner = u}
Pending(u) == {c \in Codes(u) : ~code[c].used}

\* get_active_user: may u use bills and analytics?
Active(u) == row[u].verified /\ row[u].status = "active"

Init ==
  /\ row = [u \in User |-> NewUser]
  /\ code = [c \in Code |-> NoCode]
  /\ age = [c \in Code |-> "new"]
  /\ created = 0
  /\ slot = [r \in Request |-> Idle]
  /\ proved = {}
  /\ misses = [c \in Code |-> 0]
  /\ overlapped = {}
  /\ wasBlocked = {}

-----------------------------------------------------------------------------
\* get_current_user: the request reads the row of its user.
Authenticate(r, u) ==
  /\ slot[r] = Idle
  /\ slot' = [slot EXCEPT ![r] = [Idle EXCEPT !.pc = "in", !.user = u, !.copy = row[u]]]
  /\ overlapped' = IF \E q \in Request : slot[q].user = u
                   THEN overlapped \cup {u} ELSE overlapped
  /\ UNCHANGED <<row, code, age, created, proved, misses, wasBlocked>>

\* The request is refused, fails or its worker dies: everything it flushed
\* is rolled back.
Leave(r) ==
  /\ slot[r] # Idle
  /\ slot' = [slot EXCEPT ![r] = Idle]
  /\ UNCHANGED <<row, code, age, created, proved, misses, overlapped, wasBlocked>>

-----------------------------------------------------------------------------
(* start_verification and resend_code                                      *)

\* A code sent to the same phone within the resend interval is still pending.
TooSoon(u, p) ==
  /\ Codes(u) # {}
  /\ LET c == Max(Codes(u)) IN ~code[c].used /\ age[c] = "new" /\ code[c].phone = p

StartCheck(r, p) ==
  /\ slot[r].pc = "in"
  /\ slot[r].copy.status # "blocked"
  /\ \A v \in User \ {slot[r].user} : row[v].phone # p
  /\ ~TooSoon(slot[r].user, p)
  /\ slot' = [slot EXCEPT ![r].pc = "starting", ![r].phone = p,
                          ![r].pending = Pending(slot[r].user)]
  /\ UNCHANGED <<row, code, age, created, proved, misses, overlapped, wasBlocked>>

\* Faulty variant: resend_code does not ask for a phone first.
ResendWithoutPhone(r) ==
  StartCheck(r, slot[r].copy.phone)

ResendCheck(r) ==
  /\ slot[r].copy.phone # None
  /\ StartCheck(r, slot[r].copy.phone)

\* The user columns a start emits, and the row they leave behind.
Emits(s) == (IF s.phone # s.copy.phone THEN {"phone"} ELSE {})
       \cup (IF s.copy.verified THEN {"verified"} ELSE {})
       \cup (IF s.copy.status # "pending" THEN {"status"} ELSE {})

Emitted(s, old) ==
  [phone    |-> IF "phone" \in Emits(s) THEN s.phone ELSE old.phone,
   verified |-> IF "verified" \in Emits(s) THEN FALSE ELSE old.verified,
   status   |-> IF "status" \in Emits(s) THEN "pending" ELSE old.status]

\* A flushed start q holds the code rows it closed, the user's row if it
\* emitted a column of it (all of it if the unique phone column is among
\* them, so that a row that refers to it cannot be inserted), and the entry
\* of its phone in the unique index.
LocksOut(q, s) ==
  /\ slot[q].pc = "sent"
  /\ \/ /\ slot[q].user = s.user
        /\ \/ slot[q].pending \cap s.pending # {}
           \/ Emits(slot[q]) # {} /\ Emits(s) # {}
           \/ "phone" \in Emits(slot[q]) \cup Emits(s)
     \/ "phone" \in Emits(slot[q]) \cap Emits(s) /\ slot[q].phone = s.phone

CanFlush(r) ==
  /\ slot[r].pc = "starting"
  /\ \A q \in Request \ {r} : ~LocksOut(q, slot[r])

Taken(r) ==
  /\ "phone" \in Emits(slot[r])
  /\ \E v \in User \ {slot[r].user} : row[v].phone = slot[r].phone

\* Faulty variant: users.phone_number is not unique.
StartFlushUnchecked(r) ==
  /\ CanFlush(r)
  /\ created < MaxCodes
  /\ created' = created + 1
  /\ slot' = [slot EXCEPT ![r].pc = "sent", ![r].code = created + 1]
  /\ UNCHANGED <<row, code, age, proved, misses, overlapped, wasBlocked>>

\* The flush is accepted and the provider has sent the SMS.
StartFlush(r) ==
  /\ CanFlush(r)
  /\ ~Taken(r)
  /\ created < MaxCodes
  /\ created' = created + 1
  /\ slot' = [slot EXCEPT ![r].pc = "sent", ![r].code = created + 1]
  /\ UNCHANGED <<row, code, age, proved, misses, overlapped, wasBlocked>>

\* The unique index refuses the phone: another account took it meanwhile.
StartConflict(r) ==
  /\ CanFlush(r)
  /\ Taken(r)
  /\ slot' = [slot EXCEPT ![r] = Idle]
  /\ UNCHANGED <<row, code, age, created, proved, misses, overlapped, wasBlocked>>

\* Faulty variant: earlier codes are not invalidated.
StartCommitKeepingCodes(r) ==
  LET s == slot[r]
  IN  /\ s.pc = "sent"
      /\ row' = [row EXCEPT ![s.user] = Emitted(s, @)]
      /\ code' = [code EXCEPT ![s.code] =
                    [owner |-> s.user, phone |-> s.phone, used |-> FALSE, attempts |-> 0]]
      /\ slot' = [slot EXCEPT ![r] = Idle]
      /\ UNCHANGED <<age, created, proved, misses, overlapped, wasBlocked>>

\* Faulty variant: every column of the user is written back.
StartCommitWholeRow(r) ==
  LET s == slot[r]
  IN  /\ s.pc = "sent"
      /\ row' = [row EXCEPT ![s.user] = [s.copy EXCEPT !.phone = s.phone, !.verified = FALSE]]
      /\ code' = [c \in Code |->
                    IF c = s.code
                    THEN [owner |-> s.user, phone |-> s.phone, used |-> FALSE, attempts |-> 0]
                    ELSE [code[c] EXCEPT !.used = @ \/ c \in s.pending]]
      /\ slot' = [slot EXCEPT ![r] = Idle]
      /\ UNCHANGED <<age, created, proved, misses, overlapped, wasBlocked>>

StartCommit(r) ==
  LET s == slot[r]
  IN  /\ s.pc = "sent"
      /\ row' = [row EXCEPT ![s.user] = Emitted(s, @)]
      /\ code' = [c \in Code |->
                    IF c = s.code
                    THEN [owner |-> s.user, phone |-> s.phone, used |-> FALSE, attempts |-> 0]
                    ELSE [code[c] EXCEPT !.used = @ \/ c \in s.pending]]
      /\ slot' = [slot EXCEPT ![r] = Idle]
      /\ UNCHANGED <<age, created, proved, misses, overlapped, wasBlocked>>

-----------------------------------------------------------------------------
(* confirm_verification                                                    *)

\* The newest pending code is read and judged: too old or tried too often
\* ("retiring"), not the code given ("missing"), or the code given
\* ("activating").
ConfirmRead(r, verdict) ==
  LET u == slot[r].user
      c == Max(Pending(u))
      spent == age[c] = "expired" \/ code[c].attempts >= MaxAttempts
  IN  /\ slot[r].pc = "in"
      /\ slot[r].copy.phone # None
      /\ Pending(u) # {}
      /\ spent <=> verdict = "retiring"
      /\ slot' = [slot EXCEPT ![r].pc = verdict, ![r].code = c,
                              ![r].attempts = code[c].attempts]
      /\ UNCHANGED <<row, code, age, created, proved, misses, overlapped, wasBlocked>>

\* No flushed start holds the code's row nor, when it is needed, the user's.
Unlocked(r, needsUser) ==
  \A q \in Request : slot[q].pc = "sent" /\ slot[q].user = slot[r].user =>
    /\ slot[r].code \notin slot[q].pending
    /\ needsUser => Emits(slot[q]) = {}

RetireCommit(r) ==
  /\ slot[r].pc = "retiring"
  /\ Unlocked(r, FALSE)
  /\ code' = [code EXCEPT ![slot[r].code].used = TRUE]
  /\ slot' = [slot EXCEPT ![r] = Idle]
  /\ UNCHANGED <<row, age, created, proved, misses, overlapped, wasBlocked>>

\* Faulty variants: the guess is not counted; the code stays open after the
\* last guess.
MissCommitUncounted(r) ==
  /\ slot[r].pc = "missing"
  /\ Unlocked(r, FALSE)
  /\ misses[slot[r].code] <= MaxAttempts
  /\ misses' = [misses EXCEPT ![slot[r].code] = @ + 1]
  /\ slot' = [slot EXCEPT ![r] = Idle]
  /\ UNCHANGED <<row, code, age, created, proved, overlapped, wasBlocked>>

MissCommitLeavingOpen(r) ==
  LET c == slot[r].code
      n == slot[r].attempts + 1
  IN  /\ slot[r].pc = "missing"
      /\ Unlocked(r, FALSE)
      /\ code' = [code EXCEPT ![c].attempts = n]
      /\ misses' = [misses EXCEPT ![c] = @ + 1]
      /\ slot' = [slot EXCEPT ![r] = Idle]
      /\ UNCHANGED <<row, age, created, proved, overlapped, wasBlocked>>

\* attempts is computed from the copy that was read and written back.
MissCommit(r) ==
  LET c == slot[r].code
      n == slot[r].attempts + 1
  IN  /\ slot[r].pc = "missing"
      /\ Unlocked(r, FALSE)
      /\ code' = [code EXCEPT ![c].attempts = n, ![c].used = @ \/ n >= MaxAttempts]
      /\ misses' = [misses EXCEPT ![c] = @ + 1]
      /\ slot' = [slot EXCEPT ![r] = Idle]
      /\ UNCHANGED <<row, age, created, proved, overlapped, wasBlocked>>

\* No check of BLOCKED: the status becomes active whatever it was.
ActivateCommit(r) ==
  LET s == slot[r]
  IN  /\ s.pc = "activating"
      /\ Unlocked(r, TRUE)
      /\ code' = [code EXCEPT ![s.code].used = TRUE]
      /\ row' = [row EXCEPT
                   ![s.user].verified = @ \/ ~s.copy.verified,
                   ![s.user].status = IF s.copy.status # "active" THEN "active" ELSE @]
      /\ proved' = proved \cup {<<s.user, code[s.code].phone>>}
      /\ slot' = [slot EXCEPT ![r] = Idle]
      /\ UNCHANGED <<age, created, misses, overlapped, wasBlocked>>

-----------------------------------------------------------------------------
(* The clock and the operator.                                             *)

\* Codes age in the order they were created.
Age(c) ==
  /\ c <= created
  /\ age[c] # "expired"
  /\ \A d \in 1..(c - 1) : age[d] = "expired" \/ age[d] # age[c]
  /\ age' = [age EXCEPT ![c] = IF @ = "new" THEN "cool" ELSE "expired"]
  /\ UNCHANGED <<row, code, created, slot, proved, misses, overlapped, wasBlocked>>

\* No code under src/ sets BLOCKED; an operator does.
Block(u) ==
  /\ row[u].status # "blocked"
  /\ \A q \in Request : slot[q].pc = "sent" /\ slot[q].user = u => Emits(slot[q]) = {}
  /\ row' = [row EXCEPT ![u].status = "blocked"]
  /\ wasBlocked' = wasBlocked \cup {u}
  /\ UNCHANGED <<code, age, created, slot, proved, misses, overlapped>>

Next ==
  \/ \E r \in Request :
       \/ \E u \in User : Authenticate(r, u)
       \/ Leave(r)
       \/ \E p \in Phone : StartCheck(r, p)
       \/ ResendCheck(r)
       \/ StartFlush(r)
       \/ StartConflict(r)
       \/ StartCommit(r)
       \/ \E verdict \in {"retiring", "missing", "activating"} : ConfirmRead(r, verdict)
       \/ RetireCommit(r)
       \/ MissCommit(r)
       \/ ActivateCommit(r)
  \/ \E c \in Code : Age(c)
  \/ \E u \in User : Block(u)

Spec == Init /\ [][Next]_vars

-----------------------------------------------------------------------------
(* Properties                                                              *)

UserRow == [phone : Phone \cup {None}, verified : BOOLEAN,
            status : {"pending", "active", "blocked"}]
CodeRow == [owner : User \cup {None}, phone : Phone \cup {None}, used : BOOLEAN,
            attempts : 0..MaxAttempts]
Slot == [pc : {"idle", "in", "starting", "sent", "retiring", "missing", "activating"},
         user : User \cup {None}, copy : UserRow, phone : Phone \cup {None},
         pending : SUBSET Code, code : 0..MaxCodes, attempts : 0..MaxAttempts]

\* Type invariant.
TypeOK ==
  /\ row \in [User -> UserRow]
  /\ code \in [Code -> CodeRow]
  /\ age \in [Code -> {"new", "cool", "expired"}]
  /\ created \in 0..MaxCodes
  /\ slot \in [Request -> Slot]
  /\ \A r \in Request : slot[r].pc \in {"starting", "sent"} => slot[r].phone \in Phone
  /\ proved \subseteq User \X Phone
  /\ misses \in [Code -> Nat]
  /\ overlapped \subseteq User
  /\ wasBlocked \subseteq User

\* A phone belongs to at most one account, even when two accounts start the
\* verification of the same phone at the same time and both pass the check
\* (phone_verification_service.py:50-56; models/user.py:31).
OneAccountPerPhone ==
  \A u, v \in User : u # v /\ row[u].phone # None => row[u].phone # row[v].phone

\* A user whose requests never overlapped and who has access has proved the
\* phone the account shows, not an earlier one
\* (phone_verification_service.py:74-81, 166-171).
ActiveMeansPhoneProved ==
  \A u \in User \ overlapped : Active(u) => <<u, row[u].phone>> \in proved

\* phone_verified and account_status move together in every interleaving,
\* although a request emits only the columns its own copy makes it change
\* (phone_verification_service.py:77-79, 167-169).
StatusAgreesWithVerified ==
  \A u \in User \ wasBlocked : row[u].verified <=> row[u].status = "active"

\* At most one code of a user can be redeemed unless requests overlapped
\* (phone_verification_service.py:74, phone_verification_repository.py:51-62).
OnePendingCode ==
  \A u \in User \ overlapped : Cardinality(Pending(u)) <= 1

\* A code that has been tried MaxAttempts times by its own count is closed, in
\* every interleaving: the check of line 143 never finds one
\* (phone_verification_service.py:143-159).
SpentCodesAreClosed ==
  \A c \in Code : code[c].attempts >= MaxAttempts => code[c].used

\* The limit holds for a user whose requests never overlapped: no code is
\* tried more than MaxAttempts times (phone_verification_service.py:143-159).
AttemptsLimitedWhenSequential ==
  \A c \in Code : code[c].owner \notin overlapped => misses[c] <= MaxAttempts

\* phone_verification_service.py:147 answers "Voce excedeu o limite de
\* tentativas. Solicite um novo codigo." and
\* test_confirm_phone_verification_rejects_invalid_code_and_limits_attempts
\* pins it: a code takes at most MaxAttempts wrong guesses.
AttemptsLimited == \A c \in Code : misses[c] <= MaxAttempts

\* phone_verification_service.py:44 tells a blocked user "Sua conta esta
\* bloqueada. Entre em contato com o suporte.": a request of the user's own
\* that has itself read the account as blocked does not end the block.
BlockIsKept ==
  [][\A r \in Request :
       /\ slot[r] # Idle
       /\ slot[r].copy.status = "blocked"
       /\ row[slot[r].user].status = "blocked"
       => row'[slot[r].user].status = "blocked"]_vars
=============================================================================
