----------------------------- MODULE MCPipeline -----------------------------
(***************************************************************************)
(* Model-checking instances of Pipeline.  Two workers suffice for every    *)
(* race between a reader and a writer of a shared flag.  Four files let    *)
(* each worker hold one while the channel, of capacity 2, is full; the     *)
(* three pool threads are those of the producer and the two workers.       *)
(***************************************************************************)
EXTENDS Pipeline

CONSTANTS w1, w2
MCWorker == {w1, w2}
MCPolicies == {"direct", "skip", "prompt"}
MCPrompt == {"prompt"}
MCDirect == {"direct"}
=============================================================================
