------------------------- MODULE MCMlflowConfigCache -------------------------
(* MlflowConfigCache on one namespace: an override in the default bucket,  *)
(* one in the bucket of the artifact-connection Secret, one request thread *)
(* beside the watch thread.                                                *)
EXTENDS MlflowConfigCache

CONSTANTS team, plain, secretBacked, thread

OneName == {team}
OneRequest == {thread}
PlainOnly == {plain}
SecretBackedOnly == {secretBacked}
NoSecretBacked == {}
MCSecretBacked == {secretBacked}
=============================================================================
