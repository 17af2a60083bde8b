\* A user process draws beside kproc.
SPECIFICATION GpuSpec
CONSTANTS
    Users = {u1}
    Kproc = kproc
    Null = null
    Nobody = nobody
    RingSize = 4
    MaxSema = 2
INVARIANT
    ResponseBeforeReturn
