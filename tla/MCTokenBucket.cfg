\* Two tenants; the burst is not a multiple of the rate, so refills are capped
\* half way; four instants of time are enough to drain, refill and drain again.
\* A millisecond is two instants: with three tokens asked for, the exact delay is
\* rounded down, rounded up, and as near to one millisecond as to none.
SPECIFICATION Spec
CONSTANTS
    Tenants = {t1, t2}
    Burst = 3
    Rate = 2
    Resolution = 2
    Amounts = {1, 3}
    MaxTime = 3
\* The clock of the model stops at MaxTime; calls go on.
SYMMETRY Symmetry
CHECK_DEADLOCK TRUE
INVARIANTS TypeOK NeverOverLimit NeverTooStrict RetryAfterIsClose
