SPECIFICATION Spec
CONSTANTS
    laptop = laptop
    phone = phone
    laptopId = laptopId
    phoneId = phoneId
    Endpoint = {laptop, phone}
    Device = {laptopId, phoneId}
    Conn = {c1, c2, c3}
    Book <- PairBook
    BadKey = BadKey
    None = None
SYMMETRY Symmetry
INVARIANTS
    ActiveIsListed
