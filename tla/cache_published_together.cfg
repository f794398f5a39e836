SPECIFICATION Spec
CONSTANTS
    k1 = k1  k2 = k2  s1 = s1  s2 = s2  s3 = s3  r1 = r1  c1 = c1  c2 = c2
    None = None
    Key = {k1}
    Storer = {s1}
    Reader = {}
    Clearer = {c1}
    KeyOf <- OneRelease
    Leftover <- AnyLeftover
PROPERTIES
    PublishedTogether
CHECK_DEADLOCK FALSE
