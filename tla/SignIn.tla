------------------------------- MODULE SignIn -------------------------------
(***************************************************************************)
(* What signing in through a provider promises, whatever is lost, repeated *)
(* or opened elsewhere on the way: each login at the provider signs in one *)
(* browser at most, once, as the user who logged in, and that browser is   *)
(* the one whose redirect the user followed.                               *)
(***************************************************************************)
CONSTANTS
    Browsers,
    Users,
    Flows,         \* the redirects to the provider
    NoBrowser,     \* a flow that has not begun
    Nobody         \* a browser that is not signed in

VARIABLES
    origin,        \* the browser each flow was begun for
    logins,        \* the logins at the provider: a flow and a user
    redeemed,      \* the logins that signed a browser in
    session        \* the user each browser is signed in as

vars == <<origin, logins, redeemed, session>>

Init ==
    /\ origin = [f \in Flows |-> NoBrowser]
    /\ logins = {}
    /\ redeemed = {}
    /\ session = [b \in Browsers |-> Nobody]

Begin(f, b) ==
    /\ origin[f] = NoBrowser
    /\ origin' = [origin EXCEPT ![f] = b]
    /\ UNCHANGED <<logins, redeemed, session>>

LogIn(f, u) ==
    /\ origin[f] # NoBrowser
    /\ logins' = logins \cup {<<f, u>>}
    /\ UNCHANGED <<origin, redeemed, session>>

Redeem(f, u) ==
    /\ <<f, u>> \in logins \ redeemed
    /\ redeemed' = redeemed \cup {<<f, u>>}
    /\ session' = [session EXCEPT ![origin[f]] = u]
    /\ UNCHANGED <<origin, logins>>

Next ==
    \E f \in Flows :
        \/ \E b \in Browsers : Begin(f, b)
        \/ \E u \in Users : LogIn(f, u) \/ Redeem(f, u)

Spec == Init /\ [][Next]_vars
=============================================================================
