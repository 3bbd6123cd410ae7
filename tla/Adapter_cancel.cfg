SPECIFICATION Spec
CONSTANT Work = {w1, w2}
INVARIANT CancelIsNotBadConn
