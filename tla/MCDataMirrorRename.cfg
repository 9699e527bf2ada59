\* One request at a time, none cut off, no field is called "id".
CONSTANTS
    r1 = r1
    r2 = r2
    k1 = k1
    k2 = k2
    posts = posts
    tags = tags
    sqlite_x = sqlite_x
    title = title
    body = body
    id = id
    Request = {r1}
    CollId = {k1}
    RecId = {d1}
    CollName = {posts}
    FieldName = {title, body}
    Id = id
    Reserved = {}
    None = None
    Exclusive = TRUE
    FreshForms = TRUE
    MaxRequests = 4
    MaxFaults = 0
SPECIFICATION Spec
\* The model stops at MaxRequests.
CHECK_DEADLOCK FALSE
INVARIANT LogReplays
