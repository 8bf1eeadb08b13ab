---------------------------- MODULE SessionChain ----------------------------
(***************************************************************************)
(* What the refresh-token store promises to a client that sends one        *)
(* request of a session at a time: a session (a token family) has at most  *)
(* one usable refresh token, the token is exchanged for a fresh one, and a *)
(* session that is over is never opened again.                             *)
(*                                                                         *)
(* A session on which two requests overlapped is in "branched".  Nothing   *)
(* is promised for it except that its identifiers stay unique.             *)
(***************************************************************************)
CONSTANTS Family, Token, None

VARIABLES
  current,   \* current[f]: the usable token of session f, or None
  opened,    \* the sessions that exist or existed
  used,      \* the token identifiers handed out so far
  branched   \* the sessions on which requests overlapped

vars == <<current, opened, used, branched>>

Init ==
  /\ current = [f \in Family |-> None]
  /\ opened = {}
  /\ used = {}
  /\ branched = {}

Open(f, t) ==
  /\ f \notin opened
  /\ t \notin used
  /\ current' = [current EXCEPT ![f] = t]
  /\ opened' = opened \cup {f}
  /\ used' = used \cup {t}
  /\ UNCHANGED branched

Rotate(f, t) ==
  /\ current[f] # None
  /\ t \notin used
  /\ current' = [current EXCEPT ![f] = t]
  /\ used' = used \cup {t}
  /\ UNCHANGED <<opened, branched>>

End(f) ==
  /\ current[f] # None
  /\ current' = [current EXCEPT ![f] = None]
  /\ UNCHANGED <<opened, used, branched>>

Branch(f) ==
  /\ f \in opened \ branched
  /\ branched' = branched \cup {f}
  /\ current' = [current EXCEPT ![f] = None]
  /\ UNCHANGED <<opened, used>>

RotateBranched(f, t) ==
  /\ f \in branched
  /\ t \notin used
  /\ used' = used \cup {t}
  /\ UNCHANGED <<current, opened, branched>>

Next ==
  \E f \in Family :
    \/ End(f)
    \/ Branch(f)
    \/ \E t \in Token : Open(f, t) \/ Rotate(f, t) \/ RotateBranched(f, t)

Spec == Init /\ [][Next]_vars
=============================================================================
