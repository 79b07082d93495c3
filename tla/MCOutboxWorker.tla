--------------------------- MODULE MCOutboxWorker ---------------------------
(* Model values for TLC. Rows are ordered, hence not interchangeable.        *)
EXTENDS OutboxWorker, TLC
=============================================================================
