----------------------------- MODULE RateLimiter -----------------------------
(***************************************************************************)
(* The sliding-window limiter in front of the endpoints                    *)
(* (src/app/api/dependencies/rate_limit.py): one queue of times for each   *)
(* scope and client, kept in the memory of a worker process and shared by  *)
(* its threads.  enforce reads the clock before it takes the lock, so the  *)
(* times in a queue are not in order, and a thread can decide on a reading *)
(* that is older than the one at the end of the queue.                     *)
(*                                                                         *)
(* Time is discrete, Hz ticks to the second, and there is no clock         *)
(* variable: a moment is kept as its age, which Tick increases, up to the  *)
(* age at which nothing depends on it any more.  MaxLag bounds the wait    *)
(* for the lock; it is a parameter of the environment, not of the code.    *)
(***************************************************************************)
EXTENDS Integers, Sequences

CONSTANTS
  Scope,          \* "auth:login", "upload", ...
  Address,        \* network addresses
  Blank,          \* a header that is there but holds only spaces
  Unknown,        \* the client whose address nobody states
  None,           \* no header, no peer
  Incoming,       \* the requests clients send
  Thread,         \* threads of the worker
  Enabled,        \* rate_limit_enabled
  Limit,          \* Limit[s]: <scope>_rate_limit_requests
  WindowSeconds,  \* WindowSeconds[s]: <scope>_rate_limit_window_seconds
  Hz,             \* ticks in a second
  MaxLag          \* bound: ticks between reading the clock and deciding

Headers == [scope : Scope, forwarded : Address \cup {Blank, None},
            realIp : Address \cup {Blank, None}, host : Address \cup {None}]

ASSUME IncomingAssumption == Incoming \subseteq Headers
ASSUME NoneAssumption     == None \notin Address \cup {Blank, Unknown}
ASSUME SettingsAssumption == /\ Enabled \in BOOLEAN
                             /\ Limit \in [Scope -> Int]
                             /\ WindowSeconds \in [Scope -> Int]
ASSUME TimeAssumption     == Hz \in Nat \ {0} /\ MaxLag \in Nat

VARIABLES
  bucket,   \* bucket[k]: ages of the readings admitted, as the deque holds them
  key,      \* key[t]: the key thread t is to decide on, None when it is idle
  lag,      \* lag[t]: age of the reading of thread t
  \* history
  granted,  \* granted[k]: ages of the last Limit admissions themselves
  refused,  \* keys whose last answer was a refusal
  wait      \* wait[k]: ticks until the retry promised by the last refusal,
            \* negative afterwards, None when an admission has used it

vars == <<bucket, key, lag, granted, refused, wait>>

Client == Address \cup {Blank, Unknown}
Key    == Scope \X Client
Window(k)    == WindowSeconds[k[1]] * Hz
Cap(k)       == Window(k) + MaxLag
Unlimited(s) == ~Enabled \/ Limit[s] <= 0 \/ WindowSeconds[s] <= 0

\* The address a request is counted under.
ClientOf(q) ==
  IF q.forwarded \notin {Blank, None} THEN q.forwarded
  ELSE IF q.realIp # None THEN q.realIp
  ELSE IF q.host # None THEN q.host
  ELSE Unknown

-----------------------------------------------------------------------------
Init ==
  /\ bucket  = [k \in Key |-> <<>>]
  /\ key     = [t \in Thread |-> None]
  /\ lag     = [t \in Thread |-> 0]
  /\ granted = [k \in Key |-> <<>>]
  /\ refused = {}
  /\ wait    = [k \in Key |-> None]

\* A request reaches thread t: the key is formed and the clock is read.  A
\* scope without a limit is let through and touches nothing.
Arrive(t, q) ==
  /\ key[t] = None
  /\ ~Unlimited(q.scope)
  /\ key' = [key EXCEPT ![t] = <<q.scope, ClientOf(q)>>]
  /\ lag' = [lag EXCEPT ![t] = 0]
  /\ UNCHANGED <<bucket, granted, refused, wait>>

\* Faulty variant: the window is closed at its far end.
InWindowClosed(k, age, l) == age <= Window(k) + l

\* Is an entry within the window that ends at a reading of age l?
InWindow(k, age, l) == age < Window(k) + l

\* Faulty variant: a full queue is refused before it is purged.
PurgedUnlessFull(k, b, l) ==
  IF Len(b) >= Limit[k[1]] THEN b ELSE SelectSeq(b, LAMBDA age : InWindow(k, age, l))

\* What is left of queue b for a reading of age l: popleft stops at the first
\* entry inside the window, whatever comes after it.
Purged(k, b, l) ==
  LET n == CHOOSE n \in 0..Len(b) :
             /\ \A i \in 1..n : ~InWindow(k, b[i], l)
             /\ n < Len(b) => InWindow(k, b[n + 1], l)
  IN  SubSeq(b, n + 1, Len(b))

\* Retry-After in seconds for a reading of age l, given the head of the queue.
RetryAfter(k, head, l) ==
  LET remaining == (Window(k) - (head - l)) \div Hz
  IN  IF remaining > 1 THEN remaining ELSE 1

\* Thread t has answered.
Done(t) == /\ key' = [key EXCEPT ![t] = None]
           /\ lag' = [lag EXCEPT ![t] = 0]

Latest(k, s) == IF Len(s) > Limit[k[1]] THEN Tail(s) ELSE s

\* Faulty variant: one call more than the limit.
AdmitOneMore(t) ==
  LET k == key[t]
      b == Purged(k, bucket[k], lag[t])
  IN  /\ k # None
      /\ Len(b) <= Limit[k[1]]
      /\ bucket' = [bucket EXCEPT ![k] = Append(b, lag[t])]
      /\ granted' = [granted EXCEPT ![k] = Latest(k, Append(@, 0))]
      /\ refused' = refused \ {k}
      /\ wait' = [wait EXCEPT ![k] = None]
      /\ Done(t)

\* Under the lock: enforce purges the queue and then admits or refuses.
Admit(t) ==
  LET k == key[t]
      b == Purged(k, bucket[k], lag[t])
  IN  /\ k # None
      /\ Len(b) < Limit[k[1]]
      /\ bucket' = [bucket EXCEPT ![k] = Append(b, lag[t])]
      /\ granted' = [granted EXCEPT ![k] = Latest(k, Append(@, 0))]
      /\ refused' = refused \ {k}
      /\ wait' = [wait EXCEPT ![k] = None]
      /\ Done(t)

\* Faulty variant: a refused call is put into the queue as well.
RefuseCounted(t) ==
  LET k == key[t]
      b == Purged(k, bucket[k], lag[t])
  IN  /\ k # None
      /\ Len(b) >= Limit[k[1]]
      /\ bucket' = [bucket EXCEPT ![k] = Append(b, lag[t])]
      /\ refused' = refused \cup {k}
      /\ wait' = [wait EXCEPT ![k] = (RetryAfter(k, b[1], lag[t]) + 1) * Hz - 1]
      /\ Done(t)
      /\ UNCHANGED granted

Refuse(t) ==
  LET k == key[t]
      b == Purged(k, bucket[k], lag[t])
  IN  /\ k # None
      /\ Len(b) >= Limit[k[1]]
      /\ bucket' = [bucket EXCEPT ![k] = b]
      /\ refused' = refused \cup {k}
      /\ wait' = [wait EXCEPT ![k] = (RetryAfter(k, b[1], lag[t]) + 1) * Hz - 1]
      /\ Done(t)
      /\ UNCHANGED granted

Older(k, age) == IF age < Cap(k) THEN age + 1 ELSE age

\* The clock advances; MaxLag holds it back while a thread is still to decide.
Tick ==
  /\ \A t \in Thread : key[t] # None => lag[t] < MaxLag
  /\ bucket'  = [k \in Key |-> [i \in DOMAIN bucket[k] |-> Older(k, bucket[k][i])]]
  /\ granted' = [k \in Key |-> [i \in DOMAIN granted[k] |-> Older(k, granted[k][i])]]
  /\ lag' = [t \in Thread |-> IF key[t] = None THEN 0 ELSE lag[t] + 1]
  /\ wait' = [k \in Key |-> IF wait[k] = None \/ wait[k] = -MaxLag
                            THEN wait[k] ELSE wait[k] - 1]
  /\ UNCHANGED <<key, refused>>

\* The worker restarts: its limiter starts empty.
Restart ==
  /\ bucket'  = [k \in Key |-> <<>>]
  /\ key'     = [t \in Thread |-> None]
  /\ lag'     = [t \in Thread |-> 0]
  /\ granted' = [k \in Key |-> <<>>]
  /\ refused' = {}
  /\ wait'    = [k \in Key |-> None]

\* The keys whose requests may be refused.
Counted == {<<q.scope, ClientOf(q)>> : q \in {q \in Incoming : ~Unlimited(q.scope)}}
Send(k) == \E t \in Thread, q \in Incoming :
             <<q.scope, ClientOf(q)>> = k /\ Arrive(t, q)
Decide(t) == Admit(t) \/ Refuse(t)

Next ==
  \/ \E t \in Thread : \/ \E q \in Incoming : Arrive(t, q)
                       \/ Admit(t)
                       \/ Refuse(t)
  \/ Tick
  \/ Restart

\* Fairness: the clock runs, a thread that waits for the lock gets it, and
\* the clients of a key that was refused go on sending.
Spec == /\ Init /\ [][Next]_vars
        /\ WF_vars(Tick)
        /\ \A t \in Thread : WF_vars(Decide(t))
        /\ \A k \in Counted : SF_vars(k \in refused /\ Send(k))
-----------------------------------------------------------------------------
\* The types; a queue never holds more than Limit entries.
TypeOK ==
  /\ bucket  \in [Key -> Seq(Nat)]
  /\ granted \in [Key -> Seq(Nat)]
  /\ \A k \in Key :
       /\ bucket[k] = <<>> \/ Len(bucket[k]) <= Limit[k[1]]
       /\ granted[k] = <<>> \/ Len(granted[k]) <= Limit[k[1]]
       /\ \A i \in DOMAIN bucket[k] : bucket[k][i] <= Cap(k)
       /\ \A i \in DOMAIN granted[k] : granted[k][i] <= Cap(k)
  /\ key \in [Thread -> Key \cup {None}]
  /\ lag \in [Thread -> 0..MaxLag]
  /\ refused \subseteq Key
  /\ wait \in [Key -> Int \cup {None}]

\* No more than Limit calls are let through in a window, although the queue
\* is not in order: when a call is admitted, the Limit-th before it is at
\* least a window old, less the time a thread can have waited for the lock
\* (enforce, rate_limit.py:20-33).
LimitHolds ==
  [][\A t \in Thread :
       Admit(t) => LET k == key[t] IN
                   Len(granted[k]) = Limit[k[1]]
                     => granted[k][1] >= Window(k) - MaxLag]_vars

\* A call is refused only when Limit calls have been let through in the window
\* that ends at its reading of the clock: entries behind a younger head, or
\* refused calls, never make a client wait longer.
RefusesOnlyAtLimit ==
  [][\A t \in Thread :
       Refuse(t) => LET k == key[t] IN
                    /\ Len(granted[k]) = Limit[k[1]]
                    /\ granted[k][1] < Window(k) + lag[t]]_vars

\* Retry-After is truncated to seconds (rate_limit.py:30).  A client that waits
\* for as long, and for what was cut off, is admitted unless another call on
\* its key was admitted first.
RetryKept ==
  [][\A t \in Thread :
       Refuse(t) => LET k == key[t] IN ~(wait[k] # None /\ wait[k] <= -lag[t])]_vars

\* Nobody is locked out: clients that go on sending while they are refused are
\* admitted in the end, since refused calls are not counted.
RefusedIsAdmitted == \A k \in Counted : (k \in refused) ~> (k \notin refused)
=============================================================================
