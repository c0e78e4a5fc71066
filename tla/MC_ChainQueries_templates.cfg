CONSTANTS
    G = G   A1 = A1   A2 = A2   B1 = B1   B2 = B2   NoBlock = NoBlock
    k0 = k0  k1 = k1  k2 = k2  k3 = k3  k4 = k4  k5 = k5
    o1 = o1  o2 = o2  o3 = o3  o4 = o4  o5 = o5  o6 = o6  o7 = o7  o8 = o8
    Blocks <- MCBlocks
    Kernels <- MCKernels
    Outputs <- MCOutputs
    Burned <- MCBurned
    Invalid <- MCInvalid
    Templates <- MCTemplates
    NoHash <- NoBlock
    Parent <- MCParent
    KernelsOf <- MCKernelsOf
    OutputsOf <- MCOutputsOf
    InputsOf <- MCInputsOf
SPECIFICATION Spec
INVARIANT TemplateRegistrationsAnswerRange
