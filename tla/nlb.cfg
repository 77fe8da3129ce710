\* A sweep of three sizes (1..3 lines, 64-byte lines) against a device
\* that may report an error or write a line wrong, with every allocation,
\* handshake and free failure.
CONSTANTS
    BeginCls = 1
    EndCls = 3
    CLBytes = 64
    DeviceFaults = {"error", "corrupt"}
SPECIFICATION Spec
INVARIANTS TypeOK NoStaleCompletion
PROPERTIES RunTestReturns
