------------------------------- MODULE Surface -------------------------------
(***************************************************************************)
(* The report an application gives of a guarded route (surface.py), beside *)
(* the guard it reports on: auth_surface reads the guard, never a request. *)
(* One dependency guards the route, so its unit alone makes the report.    *)
(***************************************************************************)
EXTENDS Dispatch

\* Mutant of IsOptional: what the first source of a MultiAuth says.
IsOptionalFirst == \E i \in DOMAIN guard.members : i = 1 /\ guard.members[i].optional

\* _is_optional: a MultiAuth speaks for itself, not for its sources.
IsOptional == guard.optional

\* Mutant of Positions: a MultiAuth is taken for its first source.
PositionsFirst == {Members[i] : i \in DOMAIN Members \cap {1}}

\* _positions: a MultiAuth stands for all of its sources.
Positions == MemberSet

\* _requirements: the schemes of the dependency, each with the route's scopes
Requirements ==
    {[source |-> l, scopes |-> scopes, optional |-> IsOptional] : l \in Positions}

\* auth_surface: the ways to satisfy the route, and whether none is needed
Alternatives == {{requirement} : requirement \in Requirements}
Unguarded    == \E requirement \in Requirements : requirement.optional

Satisfies(alternative) ==
    \A requirement \in alternative :
        /\ requirement.source = decider.lineage
        /\ requirement.scopes \subseteq Presented.scopes

\* After any sequence of builders the report agrees with the requests: a
\* request without a credential reaches a handler of a route only if the
\* report calls it unguarded, is asked for one only if it does not, and a
\* credential passes only in a way the report lists.  A combination of no
\* source is the exception: made optional it serves anyone, while the report
\* has no alternative of it to call optional.
ReportAgrees ==
    [][/\ pc = "arrived" /\ (\A l \in MemberSet : sent[l] = NoCredential) =>
              /\ pc' = "handling" => Unguarded \/ guard.members = <<>>
              /\ reply' = "missing" => ~Unguarded
       /\ pc = "levelling" /\ pc' = "handling" =>
              \E alternative \in Alternatives : Satisfies(alternative)]_vars
=============================================================================
