----------------------------- MODULE MCDeployer -----------------------------
(***************************************************************************)
(* Small instances of Deployer for TLC.                                    *)
(***************************************************************************)
EXTENDS DeployerRefinement

CONSTANTS k1, k2, p1

OneCapp == {[ns |-> <<"a">>, name |-> <<"b">>]}

TwoCapps == {[ns |-> <<"a">>, name |-> <<"b">>], [ns |-> <<"a">>, name |-> <<"c">>]}

\* Namespace a-b with name c, and namespace a with name b-c.
Hyphenated == {[ns |-> <<"a", "b">>, name |-> <<"c">>], [ns |-> <<"a">>, name |-> <<"b", "c">>]}

\* RCSConfigs
ListP1 == {<<p1>>}
ListAny == {<<p1>>, <<>>}
ListNone == {<<>>}

\* PlacementDecisions: the local cluster k2 is skipped unless it is the only one.
DecideK1 == {{<<k2, k1>>}}
DecideLate == {{}, {<<k2, k1>>}}
DecideAny == {{<<k1>>}, {<<k2>>}}
DecideOne == {{<<k1>>}}
=============================================================================
