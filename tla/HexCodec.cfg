\* 32-byte digests made of two sampled bytes, switching around the 20-byte cut.
CONSTANTS
    ByteSamples = {0, 1, 9, 10, 15, 16, 160, 255}
    HashLen = 32
    MalformedInput = MalformedInput
SPECIFICATION Spec
INVARIANTS AddressFormat
