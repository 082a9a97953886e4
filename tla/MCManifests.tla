---------------------------- MODULE MCManifests ----------------------------
(***************************************************************************)
(* Small instances of Manifests for TLC.                                   *)
(***************************************************************************)
EXTENDS Manifests

CONSTANTS a, b, s, t

ConfigMapRef(n) == [configMap |-> n, secret |-> None]
NoRef == [configMap |-> None, secret |-> None]

ConfigMapVolume(n) == [configMap |-> n, secret |-> None, sources |-> <<>>]
Projected(refs) == [configMap |-> None, secret |-> None, sources |-> refs]

Bare == [containers |-> <<>>, initContainers |-> <<>>, volumes |-> <<>>,
         imagePullSecrets |-> <<>>, passwordSecret |-> None]

\* Two variables from one ConfigMap and one from a Secret.
ReadsTwice ==
    [Bare EXCEPT !.containers =
        <<[envFrom |-> <<>>, env |-> <<ConfigMapRef(a), ConfigMapRef(a), SecretRef(s)>>]>>]

\* Two containers, two volumes, one of them projected, and a pull secret.
Mounts ==
    [Bare EXCEPT !.containers = <<[envFrom |-> <<ConfigMapRef(b)>>, env |-> <<>>],
                                  [envFrom |-> <<SecretRef(t)>>, env |-> <<NoRef>>]>>,
                 !.volumes = <<ConfigMapVolume(a), Projected(<<SecretRef(t)>>)>>,
                 !.imagePullSecrets = <<s>>]

\* A container without variables mounts a ConfigMap and a Secret as one volume.
MountsProjected ==
    [Bare EXCEPT !.containers = <<[envFrom |-> <<>>, env |-> <<>>]>>,
                 !.volumes = <<Projected(<<ConfigMapRef(a), SecretRef(s)>>)>>]

TwoSpecs == {ReadsTwice, Mounts}
ProjectedOnly == {MountsProjected}

Binding(role, kind, name) == [role |-> role, subjects |-> {[kind |-> kind, name |-> name]}]

AdminAndViewer == {Binding("admin", "User", "alice"), Binding("view", "User", "bob")}
=============================================================================
