\* One command sent: is the transfer exactly the command frame?
CONSTANTS MaxSends = 1  TickBits = 8
SPECIFICATION Spec
INVARIANT ExactCommandBytes
CHECK_DEADLOCK FALSE
