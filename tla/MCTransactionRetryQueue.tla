---------------------- MODULE MCTransactionRetryQueue ----------------------
(* Instances of TransactionRetryQueue for TLC. *)
EXTENDS TransactionRetryQueue

CONSTANTS t1, t2, t3

\* t1 and t2 fill the memory together; t3 has a higher priority and is larger
\* than the limits of memory and disk.
SmallSize == t1 :> 1 @@ t2 :> 2 @@ t3 :> 4
SmallPriority == t1 :> 0 @@ t2 :> 0 @@ t3 :> 1
SmallCreatedAt == t1 :> 1 @@ t2 :> 2 @@ t3 :> 1

\* Plenty of room, or a disk that other programs have filled.
SmallFreeSpace == {-1, 9}

=============================================================================
