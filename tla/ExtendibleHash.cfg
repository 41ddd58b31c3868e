SPECIFICATION Spec
CONSTANTS
    Key <- MCKey
    Value = {1, 2}
    BucketSize = 2
    Pointer <- MCPointer
INVARIANT DirectorySound
PROPERTY TableSpec
