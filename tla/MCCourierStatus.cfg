\* Each courier with its webhook calls, page syncs and refreshes.
CONSTANTS
    w1 = w1  w2 = w2  p1 = p1  p2 = p2
    Setups <- EveryCourier
    Webhooks = {w1, w2}
    Pagers = {p1, p2}
    Steady = {p1}
    Untimed = {"AMEEX", "FORCELOG", "OZONEEXPRESS"}
    Moves <- Usual
    MaxTime = 3
SPECIFICATION FairCourierSpec
INVARIANTS OutcomeIsBooked 
PROPERTIES TerminalNeverReopened 
CHECK_DEADLOCK FALSE
