--------------------------- MODULE MCSecretCache ---------------------------
(* SecretCache with one namespace, one bucket, two callers.                *)
EXTENDS SecretCache

CONSTANTS team, bucket, first, second

OneName == {team}
OneBucket == {bucket}
TwoCallers == {first, second}
=============================================================================
