\* Two requests on different collections, one of them may be cut off.
CONSTANTS
    r1 = r1
    r2 = r2
    k1 = k1
    k2 = k2
    posts = posts
    tags = tags
    sqlite_x = sqlite_x
    title = title
    body = body
    id = id
    Request = {r1, r2}
    CollId = {k1, k2}
    RecId = {d1}
    CollName = {posts, tags, sqlite_x}
    FieldName = {title, body, id}
    Id = id
    Reserved = {sqlite_x}
    None = None
    Exclusive = TRUE
    FreshForms = TRUE
    MaxRequests = 6
    MaxFaults = 1
SPECIFICATION Spec
\* The model stops at MaxRequests.
CHECK_DEADLOCK FALSE
SYMMETRY Symmetry
INVARIANT TypeOK MirrorAgrees ValuesHaveFields
PROPERTY RejectionIsExcused
