SPECIFICATION Spec
CONSTANTS
    Base = 8
    BlobLength = 1
    Null = Null
    None = None
    SecPerHour = 2
    UsecPerSec = 2
    Space = 1
    Rows = {1, 2}
    Fields <- MCFields
    Samples <- MCSamples
    LikePrefixes <- MCLikePrefixes
    Zones <- MCZones
    LatLong = {4326}
INVARIANTS
    FieldTypeOK
    ReadsBack
    LookupFinds
    KeyOrder
    CodecOrder
