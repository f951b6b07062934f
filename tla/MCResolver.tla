----------------------------- MODULE MCResolver -----------------------------
(* Resolver on small instances: one or two names, two or three connections. *)
EXTENDS Resolver, TLC

CONSTANTS example, EXAMPLE, other,  \* names as clients spell them
          kExample, kOther,         \* and in lower case
          v4, v6, lo                \* two remote addresses and a loopback one

\* A name, a name in two spellings, two names.
OneNameOf == (example :> kExample)
OneKeyOf  == (example :> kExample) @@ (EXAMPLE :> kExample)
TwoKeysOf == (example :> kExample) @@ (other :> kOther)

\* Exchanging the two names together with their lower-case forms.
Swap == (example :> other) @@ (other :> example)
        @@ (kExample :> kOther) @@ (kOther :> kExample)

Symmetric == Permutations(Callers) \union Permutations(Calls) \union {Swap}
=============================================================================
