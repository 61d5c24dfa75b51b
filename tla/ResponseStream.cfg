SPECIFICATION Spec
CONSTANTS
    Answers = 4
    NULL = NULL
    END = END
    STATUS = STATUS
INVARIANTS DeliveryInvariant   
PROPERTY CallsReturn
