\* Two browsers and two names; three users in all; two attempts in a window of two
\* ticks, and a restart in the time of a window.
SPECIFICATION Spec
CONSTANTS
    c1 = c1
    c2 = c2
    n1 = n1
    n2 = n2
    Client = {c1, c2}
    Name = {n1, n2}
    MaxAttempts = 2
    Window = 1
    MaxId = 3
    MaxRestarts = 1
SYMMETRY Symmetry
CONSTRAINT Focus
INVARIANTS ThrottleHolds SessionsAreEarned SessionsEnd
PROPERTIES SetupCloses
