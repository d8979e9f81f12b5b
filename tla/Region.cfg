SPECIFICATION ImagesSpec
CONSTANTS
    Chunks <- ThreeChunks
    LargeChunkEdge = 2
    Payloads = {a, b}
    Zero = zero
    Torn = torn
    NoSum = nosum
    Corrupt = corrupt
    MaxOpenRegions = 1
    Fails = {"create", "load", "header", "directory", "size", "payload", "publish", "close"}
 
INVARIANT HandlesBounded
INVARIANT FieldsAreIndependent
INVARIANT ChunksAreBlockMaps
INVARIANT ZRLEIsExact
INVARIANT ImagesKeepChunks
