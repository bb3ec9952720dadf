-------------------- MODULE ExecutorServiceLifecycleBits --------------------
(***************************************************************************)
(* The lifecycle byte both executor services keep in an AtomicU8           *)
(* (executor_service_lifecycle_bits.rs).  Each operator is one atomic      *)
(* access: what is read from, or what is stored into, the byte.            *)
(***************************************************************************)
EXTENDS Naturals

Running      == 0
ShuttingDown == 1
Stopping     == 2
Terminated   == 3   \* never stored: a service reports it when it is
                    \* not running and has no unfinished task

\* Decoding clamps every larger byte to Terminated.
from_u8(value) == IF value < Terminated THEN value ELSE Terminated

load(byte) == from_u8(byte)

\* fetch_update: only a running service becomes shutting down.
shutdown_bits(byte) == IF from_u8(byte) = Running THEN ShuttingDown ELSE byte

\* An unconditional store.
\* Faulty variant: nothing is stored.
stop_bits_skipped(byte) == byte

stop_bits(byte) == Stopping

is_not_running(byte) == load(byte) # Running
=============================================================================
