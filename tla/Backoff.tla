------------------------------ MODULE Backoff -------------------------------
(* backoff_algorithm.c: jitter below a bound that doubles up to a maximum. *)
(* The fields are 16 bits wide (attempts 32); a computation is made in 32  *)
(* bits and cut when it is stored.                                         *)
EXTENDS Integers

UINT16 == {n \in Nat : n < 65536}
RetryForever == 0         \* BACKOFF_ALGORITHM_RETRY_FOREVER

Contexts == [nextJitterMax : UINT16, maxBackoffDelay : UINT16,
             maxRetryAttempts : Nat, attemptsDone : Nat]

(* BackoffAlgorithm_InitializeParams                                       *)
InitializeParams(backOffBase, maxBackOff, maxAttempts) ==
    [nextJitterMax |-> backOffBase, maxBackoffDelay |-> maxBackOff,
     maxRetryAttempts |-> maxAttempts, attemptsDone |-> 0]

(* BackoffAlgorithm_GetNextBackoff, in its parts                           *)
AttemptsLeft(context) ==
    \/ context.attemptsDone < context.maxRetryAttempts
    \/ context.maxRetryAttempts = RetryForever

NextBackOff(context, random) == (random % (context.nextJitterMax + 1)) % 65536

(* Mutant: doubled until the maximum is passed.                            *)
RetryPastMaximum(context) ==
    [context EXCEPT
        !.attemptsDone = @ + 1,
        !.nextJitterMax = IF @ < context.maxBackoffDelay THEN (@ + @) % 65536
                                                         ELSE context.maxBackoffDelay]

AfterRetry(context) ==
    [context EXCEPT
        !.attemptsDone = @ + 1,
        !.nextJitterMax = IF @ < context.maxBackoffDelay \div 2 THEN (@ + @) % 65536
                                                                ELSE context.maxBackoffDelay]
=============================================================================
