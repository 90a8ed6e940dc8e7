--------------------------- MODULE MCTextInput ---------------------------
(* TextInput on a small instance. *)
EXTENDS TextInput, TLC

CONSTANTS
    s1, s2, s3, i1, i2, x1, x2, v1, A, B

\* s1, s2, i1, i2: one client; s3: another.
MCOwnerOf == s1 :> A @@ s2 :> A @@ s3 :> B @@ i1 :> A @@ i2 :> A
Interchangeable == Permutations({s1, s2}) \cup Permutations({i1, i2}) \cup Permutations({x1, x2})
=============================================================================
