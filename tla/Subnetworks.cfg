CONSTANTS
    Workers = {w1, w2}
    FirstNet = 18
    LimitNet = 20
    Radix = 2
    Step = 64
    Wrap = 128
    FirstPrefix = 1
    LimitPrefix = 3
    RadixV6 = 2
SPECIFICATION RequestSpec
INVARIANT SubnetOwnedOnce
PROPERTIES ImplementsAllocator ImplementsAllocatorV6
CHECK_DEADLOCK FALSE
