SPECIFICATION FeedSpec
CONSTANTS
    info = info
    important = important
    newer = newer
    Sources = {info, important, newer}
    Group <- MCGroup
    Attention <- MCAttention
    Id <- MCId
    Users = {u1}
    Sessions = {p1}
    Window = 0
    PageSize = 1
    MaxTime = 1
    None = None
CHECK_DEADLOCK FALSE
PROPERTY PagingIsStable
