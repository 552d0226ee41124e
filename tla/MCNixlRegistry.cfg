SPECIFICATION RegSpec
CONSTANTS
    Regs = {m1, m2, m3}
    Conts = {c1, c2}
    DevIds = {d1, d2}
    Oids = {o1}
    Addrs = {0, 1, 2}
    Span = 2
    MaxList = 3
INVARIANT RefsExact
INVARIANT RightObject
