---------------------------- MODULE MCWriteBuffer ----------------------------
(* Small instances of WriteBuffer: three chunks of two time units, r2 and r4
   in the first of them, r1 in the second and r3 in the third.             *)
EXTENDS WriteBuffer

CONSTANTS r1, r2, r3, r4

MCTimeOf == [r \in Rows |-> CASE r = r1 -> 2 [] r = r2 -> 0 [] r = r3 -> 5 [] OTHER -> 1]

\* r1 before 1970, in the chunk that starts at 0 as the code rounds.
BeforeEpoch == [r \in Rows |-> IF r = r1 THEN -1 ELSE 0]
==============================================================================
