CONSTANTS
    m_num_interrupts = 1
    IsrAddr <- MCIsrAddr
    NoIsr = NoIsr
    m_memsize = 1344
    m_framesize = 256
    Inputs <- MCInputs
    CodeOf <- MCCodeOf
    ResultOf <- MCResultOf
SPECIFICATION VMSpec
INVARIANTS
    CallChain
    CodeIntact
    RunsToEnd
    ResultUndisturbed
PROPERTIES
    InterruptTransparent
    IntrSafeSpec
