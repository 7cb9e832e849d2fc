CONSTANTS
    m_num_interrupts = 1
    IsrAddr <- MCIsrAddr
    NoIsr = NoIsr
    m_memsize = 4096
    m_framesize = 256
    Inputs <- MCInputs
    CodeOf <- FourLocals
    ResultOf <- FourLocalsResult
SPECIFICATION VMSpec
INVARIANTS
    LocalsInFrame
