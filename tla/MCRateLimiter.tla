---------------------------- MODULE MCRateLimiter ----------------------------
EXTENDS RateLimiter, TLC

CONSTANTS login, upload, phone, address

\* One client whose address is stated in two ways, one whose address is not
\* known, and a scope without a limit.
Plain      == [scope |-> login, forwarded |-> None, realIp |-> None, host |-> None]
MCScope    == {login, upload, phone}
MCAddress  == {address}
MCIncoming == {[Plain EXCEPT !.forwarded = address],
               [Plain EXCEPT !.forwarded = Blank, !.realIp = address],
               [Plain EXCEPT !.scope = upload],
               [Plain EXCEPT !.scope = phone]}
MCLimit         == login :> 2 @@ upload :> 1 @@ phone :> 0
MCWindowSeconds == login :> 2 @@ upload :> 1 @@ phone :> 2
=============================================================================
