---------------------------- MODULE MCAdmission ----------------------------
(***************************************************************************)
(* Small instances of Admission for TLC.                                   *)
(***************************************************************************)
EXTENDS Admission, TLC

CONSTANTS c1, c2, h1, h2, bad, m1, m2

Alice == <<"alice">>
Pipeline == <<"system", "serviceaccount", "dev", "pipeline">>
Manager == <<"system", "serviceaccount", "rcs-deployer-system", "manager">>

TwoUsers == {Alice, Pipeline}
OneUser == {Pipeline}

Nothing == [requests |-> None, limits |-> None]
Cpu(q) == [requests |-> ("cpu" :> q), limits |-> None]
Empty == [requests |-> <<>>, limits |-> <<>>]

Elastic(fields) == [type |-> "elastic", fields |-> fields]

SpecOf(site, hostname, log, containers) ==
    [site |-> site, hostname |-> hostname, log |-> log, containers |-> containers]

\* Two hostnames, containers with and without quantities, a complete log spec.
Contended ==
    {SpecOf(None, h1, EmptyLogSpec, <<Cpu(m1), Nothing>>),
     SpecOf("p1", h2, Elastic(LogFields), <<[Empty EXCEPT !.requests = ("storage" :> m1)]>>)}

\* Each to be denied for another reason: its hostname or its log spec.
Rejectable ==
    {SpecOf(None, bad, EmptyLogSpec, <<>>),
     SpecOf(None, None, Elastic({"Host"}), <<>>),
     SpecOf(None, None, [type |-> "splunk", fields |-> {}], <<>>)}

ContendedOrRejectable == Contended \cup Rejectable

Named == {SpecOf(None, h1, EmptyLogSpec, <<Nothing>>)}

Both(q) == ("cpu" :> q) @@ ("memory" :> q)

Plain == [placements |-> {"p1"}, defaults |-> [requests |-> Both(m2), limits |-> None],
          patterns |-> {}]
Strict == [placements |-> {}, defaults |-> [requests |-> None, limits |-> ("memory" :> m2)],
           patterns |-> {"", "^h1"}]
Faulty == [Plain EXCEPT !.patterns = {"("}]

AnyConfig == {Plain, Strict, Faulty}
PlainOnly == {Plain}

PatternMatches == {<<"^h1", h1>>}
=============================================================================
