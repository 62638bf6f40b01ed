--------------------------- MODULE ProviderTypes ---------------------------
(* The values that the providers of starknet-rs share: what a Provider       *)
(* method does (ask the node, or answer by itself), what an HTTP exchange    *)
(* gives, and the result the caller gets.                                    *)
EXTENDS Sequences, TLC

Ok(v) == [ok |-> TRUE, value |-> v]
Err(e) == [ok |-> FALSE, error |-> e]

(* ProviderError.                                                            *)
StarknetError(c) == [kind |-> "StarknetError", code |-> c]
RateLimited == [kind |-> "RateLimited", code |-> "none"]
Other(c) == [kind |-> "Other", code |-> c]

(* BlockId; hashes and numbers of blocks are opaque names.                   *)
Latest == [id |-> "latest", value |-> "none"]
Pending == [id |-> "pending", value |-> "none"]
BlockHash(h) == [id |-> "hash", value |-> h]
BlockNumber(n) == [id |-> "number", value |-> n]

(* A method either sends a request, whose response is read as `reads`, or    *)
(* returns a result without asking anybody.                                  *)
Ask(request, reads) == [asks |-> TRUE, request |-> request, reads |-> reads]
Answer(result) == [asks |-> FALSE, result |-> result]

(* What comes back from a request: nothing (the connection broke), the       *)
(* refusal of a rate limiter, or a body: data, an error of the node, or      *)
(* text that is neither.                                                     *)
Broken == [http |-> "broken"]
TooManyRequests == [http |-> "429"]
Garbage == [http |-> "ok", body |-> "garbage"]
Data(v) == [http |-> "ok", body |-> "data", value |-> v]
NodeError(c) == [http |-> "ok", body |-> "error", code |-> c]

(* The gateway and the classes: a class is sent compressed.                  *)
Compressed(class) == [gzip |-> class]
============================================================================
