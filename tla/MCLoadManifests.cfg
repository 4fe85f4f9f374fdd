CONSTANTS
    k1 = k1
    k2 = k2
    b1 = b1
    b2 = b2
    y1 = y1
    y2 = y2
    m1 = m1
    None = None
    PathName = PathName
    Empty = Empty
    Unparsable = Unparsable
    NotMapping = NotMapping
    Keys <- MCKeys
    Bodies <- MCBodies
    YamlNames <- MCYamlNames
    YmlNames <- MCYmlNames
    MaxDocs = 2
    MaxFileDocs = 2
SPECIFICATION Spec
CHECK_DEADLOCK FALSE
INVARIANT LoadsEveryDocument
