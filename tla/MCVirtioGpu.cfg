\* kproc, one user process and the null process, and a ring of four descriptors.
SPECIFICATION GpuSpec
CONSTANTS
    Users = {u1}
    Kproc = kproc
    Null = null
    Nobody = nobody
    RingSize = 4
    MaxSema = 2
INVARIANTS
    KprocGetsResponses
    DescriptorsExact
    AnswerOnItsWay
