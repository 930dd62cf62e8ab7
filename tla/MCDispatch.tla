------------------------------ MODULE MCDispatch ------------------------------
(* A small instance of Dispatch and Surface: a cookie and a bearer token.  *)
EXTENDS Surface, TLC

CONSTANTS cookie, bearer, high, low, read

MCOrders == {<<>>, <<bearer>>, <<cookie, bearer>>, <<bearer, cookie>>}
MCCatalogue == (cookie :> NoCatalogue @@ bearer :> {read})

Proven(at, level) ==
    [valid |-> TRUE, signed |-> at, claimed |-> at, level |-> level, claimedLevel |-> level,
     scopes |-> {read}]

\* A login before the clock starts to count, one after, at either level, one
\* without a time or a level, and one that is not valid
MCCredentials ==
    { Proven(0, high), Proven(2, high), Proven(2, low),
      [Proven(NoInstant, low) EXCEPT !.claimed = 1, !.claimedLevel = high, !.scopes = {}],
      [Proven(1, high) EXCEPT !.valid = FALSE] }

MCWindows ==
    { [maxAge |-> 3, leeway |-> 0, reader |-> TRUE],
      [maxAge |-> 1, leeway |-> 1, reader |-> FALSE] }

MCAssurances ==
    { [values |-> {high}, reader |-> TRUE], [values |-> {high, low}, reader |-> FALSE] }

MCScopeSets == {{}, {read}}
=============================================================================
