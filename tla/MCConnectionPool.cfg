SPECIFICATION FairSpec
CONSTANTS
    laptop = laptop
    phone = phone
    laptopId = laptopId
    phoneId = phoneId
    Endpoint = {laptop, phone}
    Device = {laptopId, phoneId}
    Conn = {c1, c2}
    Book <- MCBook
    BadKey = BadKey
    None = None
INVARIANTS
    TypeOK
    PooledIsHandled
PROPERTIES
    AbsentIsDialed
