\* The three protocols with every certificate configuration; two lines of input.
SPECIFICATION Spec
CONSTANTS
    Protocols = {"tlcp", "tls12", "tls13"}
    MaxData = 2
    MaxFaults = 2
INVARIANTS
    Agreement
    NoFalseAlarm
PROPERTY CallsReturn
CHECK_DEADLOCK FALSE
