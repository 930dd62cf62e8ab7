--------------------------- MODULE MCCookieSession ----------------------------
(* Small instances of CookieSession: a session and the pending login of    *)
(* the two-factor recipe, or a source named as the session's ids are       *)
(* salted; one secret key following another.                               *)
EXTENDS CookieSession

CONSTANTS alice, bob, weak, strong, none, old, new, r1, r2

session == <<"session">>
pending == <<"login">>
devices == <<"session", "sid">>

MCNames      == {session, pending}
MCNamesInOne == {session, devices}

MCKeyOrder == <<old, new>>

\* A user id with a dot in it
MCValues == {<<bob, alice>>}

\* A cookie of the releases before acr and amr
MCEarlier ==
    { [salt |-> session, key |-> old, at |-> 0, parts |-> <<bob, alice>>,
       by |-> [name |-> session, acr |-> none, sid |-> Nothing, value |-> <<bob, alice>>, login |-> Nothing]] }

From(scheme, host) == [scheme |-> scheme, host |-> host]
MCOwn     == From("https", "own")
MCTyped   == From("none", "none")
MCTrusted == {From("https", "app")}

Plain(n)    == [name |-> n, fresh |-> FALSE, levels |-> {}]
Guarded(n)  == [name |-> n, fresh |-> TRUE, levels |-> {strong}]
Sender(p, b, m, h) == [page |-> p, browser |-> b, method |-> m, hostKept |-> h]
Route(gs, handler, sender) ==
    [guards |-> gs, handler |-> handler, sender |-> sender]

MCCalls ==
    { Route(<<Plain(session)>>, "act", Sender(MCOwn, "older", "POST", FALSE)),
      Route(<<Plain(session)>>, "act", Sender(From("https", "sibling"), "older", "POST", TRUE)),
      Route(<<Plain(session)>>, "act", Sender(From("http", "own"), "older", "POST", TRUE)),
      Route(<<Plain(session)>>, "act", Sender(From("http", "own"), "recent", "websocket", TRUE)),
      Route(<<Guarded(session)>>, "act", Sender(From("https", "other"), "recent", "GET", TRUE)),
      Route(<<Plain(session), Plain(pending)>>, "ensure_fresh", Sender(MCOwn, "older", "POST", TRUE)),
      Route(<<Plain(session)>>, "step_up", Sender(From("https", "app"), "recent", "POST", TRUE)) }

\* One request of any other kind, and one that revokes the other sessions
MCAnyCall == r1 :> MCCalls @@ r2 :> {Route(<<Plain(session)>>, "revoke_others", Sender(MCOwn, "recent", "POST", TRUE))}

Symmetry == Permutations(SessionIds)

MCOneCall == r1 :> {Route(<<Plain(n)>>, "act", Sender(MCOwn, "recent", "GET", TRUE)) : n \in MCNamesInOne}

MCLogins      == {<<session, weak>>, <<pending, none>>}
MCLoginsInOne == {<<session, weak>>, <<devices, none>>}
=============================================================================
