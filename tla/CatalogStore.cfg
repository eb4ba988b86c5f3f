CONSTANTS
    Node = {self, p1, p2}
    File = {f1, f2}
    Path = {a, b}
    NoPath = NoPath
    Self = self
SPECIFICATION Spec
INVARIANTS
    EveryLiveRowIsHinted
    SelfHintIsExact
PROPERTY
    OneOwnerPerTransaction
