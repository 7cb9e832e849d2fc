CONSTANTS
    m_num_interrupts = 3
    IsrAddr = {a1, a2}
    NoIsr = NoIsr
SPECIFICATION IntrSpec
INVARIANTS
    NoThreadAbandoned
    AtMostOneLateTick
PROPERTIES
    StopTimerReturns
    TimerInterruptServed
