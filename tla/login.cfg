SPECIFICATION Spec
CONSTANTS
    l1 = l1
    l2 = l2
    l3 = l3
    c1 = c1
    c2 = c2
    c3 = c3
    st1 = st1
    st2 = st2
    d1 = d1
    d2 = d2
    w1 = w1
    w2 = w2
    Login = {l1, l2}
    Code = {c1, c2, c3}
    Steam = {st1, st2}
    Discord = {d1, d2}
    Worker = {w1, w2}
    Required = {TRUE, FALSE}
    MaxPending = 2
SYMMETRY Symmetric
INVARIANT TypeOK
INVARIANT LinksOneToOne
INVARIANT RedeemedIsProven
PROPERTY RelinkOnlyByOverlap
