------------------------------ MODULE Cookies ------------------------------
(***************************************************************************)
(* DNS cookies.  The hash binds a server cookie to the client's cookie and *)
(* address and to the time it was made; what is left of it here is that    *)
(* time, and whether the hash fits.                                        *)
(***************************************************************************)
EXTENDS Clock

CONSTANTS
    Lifetime,   \* how old a cookie may be, one hour
    Renewal,    \* the age from which it is replaced, 30 minutes
    Ahead       \* how far in the future it may lie, 5 minutes

ASSUME CookieAssumption == Lifetime \in Nat /\ Renewal \in 0..Lifetime /\ Ahead \in Nat

\* A server cookie with a fitting hash is good for an hour.
CheckCookie(made) == now <= made + Lifetime /\ made <= now + Ahead

SetNewCookie == now

\* Mutant: an old cookie is sent back as it is.
CopyCookieAlways(made) == made

\* The cookie of a good request is returned, or replaced when it is half an hour old.
CopyCookie(made) == IF now > made + Renewal THEN SetNewCookie ELSE made
=============================================================================
