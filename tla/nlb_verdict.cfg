\* A sweep of three sizes (1..3 lines, 64-byte lines) against a device
\* that may report test_error (and writes every line right), with every
\* allocation, handshake and free failure.
CONSTANTS
    BeginCls = 1
    EndCls = 3
    CLBytes = 64
    DeviceFaults = {"error"}
SPECIFICATION Spec
INVARIANTS VerdictSound
